---- MODULE Spec2Model ----
(***************************************************************************)
(* Model of the rendezvous service of lumenlink-backend: signing-key       *)
(* resolution, config pack generation / signing / verification, endpoint   *)
(* selection, attestation verification and the HTTP handlers that use      *)
(* them, and the start-up guards of cmd/server.                            *)
(*                                                                         *)
(* Byte strings are abstracted to records that keep their length, whether  *)
(* the slice is nil, and an identity for their content.  Ed25519 is        *)
(* modelled algebraically: a signature records the seed that produced it,  *)
(* the public half that was hashed into it and the signed message.         *)
(***************************************************************************)
EXTENDS Integers, Sequences, FiniteSets, TLC

VARIABLES
    env,            \* process environment read by cmd/server main
    pc,             \* position of main
    fatal,          \* message of the log.Fatal that ended main, or ""
    configService,  \* ConfigService{privateKey, publicKey}
    directory,      \* rows of the gateways table, by gateway id
    pack,           \* the SignedConfigPack last returned (or NoPack)
    genErr,         \* error returned by the last GenerateConfigPack
    lastCall,       \* arguments of the last GenerateConfigPack
    tamper,         \* the single modification applied to pack after signing
    verified,       \* outcome of the last VerifyConfigPack on pack
    attestService,  \* AttestationService configuration
    playInit,       \* state of playIntegrityInitOnce / client / init error
    request,        \* the AttestationRequest last evaluated
    backend,        \* what the verification backend answered for it
    result,         \* *AttestationResult returned by VerifyAttestation
    verr,           \* error returned by VerifyAttestation
    resp,           \* the HTTP response last written by a handler
    honeypot,       \* argument and value of the last ShouldUseHoneypot
    audit,          \* attestation records written by the last VerifyAttestation
    callers,        \* goroutines inside initPlayIntegrityClient: position, what each saw
    initMu,         \* holder of the mutex of playIntegrityInitOnce, 0 when free
    bodyRuns,       \* how many times the function passed to Once.Do has run
    geo,            \* the last GeoBalancer / load call: arguments and results
    intBits,        \* width of int in this build of the server, 32 or 64
    rolloutEnv,     \* the LUMENLINK_ROLLOUT_PERCENTAGE* variables of the environment
    rollout         \* the rollout calls made so far: arguments and results

vars == <<env, pc, fatal, configService, directory, pack, genErr, lastCall,
          tamper, verified, attestService, playInit, request, backend,
          result, verr, resp, honeypot, audit, callers, initMu, bodyRuns, geo,
          intBits, rolloutEnv, rollout>>

startVars  == <<env, pc, fatal>>
onceVars   == <<callers, initMu, bodyRuns>>
rolloutVars == <<intBits, rolloutEnv, rollout>>
packVars   == <<pack, genErr, lastCall, tamper, verified>>
attestVars == <<playInit, request, backend, result, verr, honeypot, audit>>

-----------------------------------------------------------------------------
(* Bounds of the model                                                     *)

NumKeys == 2            \* distinct Ed25519 seeds
MaxUsersConnected == 1  \* largest current_users of a row
MaxCapacity == 2        \* largest max_users of a row
MaxVerdicts == 2        \* longest device-recognition verdict list of a payload
NumCallers == 2         \* goroutines that call the Android verifier at once
MaxReported == 3        \* largest users_connected of a status report
MaxCount == 3           \* largest count asked of GetLoadBalancedGateways

-----------------------------------------------------------------------------
(* Strings whose characters matter (environment values) are sequences of   *)
(* one-character strings, so that strings.ToLower is computed.             *)

UpperCase == <<"A","B","C","D","E","F","G","H","I","J","K","L","M",
               "N","O","P","Q","R","S","T","U","V","W","X","Y","Z">>
LowerCase == <<"a","b","c","d","e","f","g","h","i","j","k","l","m",
               "n","o","p","q","r","s","t","u","v","w","x","y","z">>

toLowerRune(c) ==
    IF \E i \in 1..26 : UpperCase[i] = c
    THEN LowerCase[CHOOSE i \in 1..26 : UpperCase[i] = c]
    ELSE c

ToLower(s) == [i \in 1..Len(s) |-> toLowerRune(s[i])]

s_empty       == << >>
s_1           == <<"1">>
s_0           == <<"0">>
s_true        == <<"t","r","u","e">>
s_TRUE        == <<"T","R","U","E">>
s_True        == <<"T","r","u","e">>
s_false       == <<"f","a","l","s","e">>
s_yes         == <<"y","e","s">>
s_YES         == <<"Y","E","S">>
s_production  == <<"p","r","o","d","u","c","t","i","o","n">>
s_Production  == <<"P","r","o","d","u","c","t","i","o","n">>
s_development == <<"d","e","v","e","l","o","p","m","e","n","t">>

-----------------------------------------------------------------------------
(* crypto/ed25519                                                          *)

PublicKeySize  == 32
PrivateKeySize == 64
SignatureSize  == 64

Seeds == 1..NumKeys

\* the public key that belongs to a seed
PubOf(seed) == seed

NilBytes   == [nil |-> TRUE,  len |-> 0, id |-> 0]
EmptyBytes == [nil |-> FALSE, len |-> 0, id |-> 0]
KeyBytes(n, k) == [nil |-> FALSE, len |-> n, id |-> k]

NilPrivateKey == [len |-> 0, seed |-> 0, pub |-> 0]
\* a 64-byte private key: 32 bytes of seed followed by 32 bytes of public key
PrivateKeyOf(seed, pub) == [len |-> PrivateKeySize, seed |-> seed, pub |-> pub]

\* PrivateKey.Public(): the trailing 32 bytes of the private key
Public(priv) == KeyBytes(PublicKeySize, priv.pub)

NilSignature   == [nil |-> TRUE,  len |-> 0, seed |-> 0, A |-> 0, msg |-> << >>, flip |-> 0]
EmptySignature == [nil |-> FALSE, len |-> 0, seed |-> 0, A |-> 0, msg |-> << >>, flip |-> 0]

\* ed25519.Sign: the scalar comes from the seed, the hash covers the public
\* half stored in the private key and the message
Sign(priv, data) ==
    [nil |-> FALSE, len |-> SignatureSize, seed |-> priv.seed, A |-> priv.pub,
     msg |-> data, flip |-> 0]

\* ed25519.Verify: panics on a public key of the wrong length, rejects a
\* signature of the wrong length, otherwise checks the signature equation
Verify(pub, data, sig) ==
    IF pub.len # PublicKeySize THEN "panic"
    ELSE IF sig.len # SignatureSize THEN "false"
    ELSE IF /\ sig.flip = 0
            /\ PubOf(sig.seed) = pub.id
            /\ sig.A = pub.id
            /\ sig.msg = data
         THEN "true" ELSE "false"

-----------------------------------------------------------------------------
(* internal/config: key resolution                                         *)

\* an environment variable holding base64 key material
UnsetKey == [set |-> FALSE, b64ok |-> FALSE, len |-> 0, seed |-> 0, pub |-> 0]
EnvKey(ok, n, seed, pub) == [set |-> TRUE, b64ok |-> ok, len |-> n, seed |-> seed, pub |-> pub]

NoService == [ok |-> FALSE, privateKey |-> NilPrivateKey, publicKey |-> NilBytes]

\* the values of LUMENLINK_ALLOW_EPHEMERAL_SIGNING_KEY that allow an ephemeral key
allowsEphemeralKey(allowEphemeral) ==
    allowEphemeral = s_1 \/ allowEphemeral = s_true \/ allowEphemeral = s_TRUE

loadSigningKeys(privateKeyB64, publicKeyB64, allowEphemeral, ephSeed) ==
    IF ~privateKeyB64.set
    THEN IF allowsEphemeralKey(allowEphemeral)
         THEN [err |-> "", privateKey |-> PrivateKeyOf(ephSeed, PubOf(ephSeed)),
               publicKey |-> KeyBytes(PublicKeySize, PubOf(ephSeed))]
         ELSE [err |-> "config signing private key is required",
               privateKey |-> NilPrivateKey, publicKey |-> NilBytes]
    ELSE IF ~privateKeyB64.b64ok
    THEN [err |-> "invalid config signing private key encoding",
          privateKey |-> NilPrivateKey, publicKey |-> NilBytes]
    ELSE IF privateKeyB64.len # PrivateKeySize
    THEN [err |-> "invalid config signing private key length",
          privateKey |-> NilPrivateKey, publicKey |-> NilBytes]
    ELSE LET privateKey == PrivateKeyOf(privateKeyB64.seed, privateKeyB64.pub) IN
         IF publicKeyB64.set
         THEN IF ~publicKeyB64.b64ok
              THEN [err |-> "invalid config signing public key encoding",
                    privateKey |-> NilPrivateKey, publicKey |-> NilBytes]
              ELSE IF publicKeyB64.len # PublicKeySize
              THEN [err |-> "invalid config signing public key length",
                    privateKey |-> NilPrivateKey, publicKey |-> NilBytes]
              ELSE [err |-> "", privateKey |-> privateKey,
                    publicKey |-> KeyBytes(PublicKeySize, publicKeyB64.pub)]
         ELSE [err |-> "", privateKey |-> privateKey, publicKey |-> Public(privateKey)]

NewConfigService(privateKeyB64, publicKeyB64, allowEphemeral, ephSeed) ==
    LET keys == loadSigningKeys(privateKeyB64, publicKeyB64, allowEphemeral, ephSeed) IN
    IF keys.err # "" THEN [err |-> keys.err, svc |-> NoService]
    ELSE [err |-> "",
          svc |-> [ok |-> TRUE, privateKey |-> keys.privateKey, publicKey |-> keys.publicKey]]

\* values of LUMENLINK_CONFIG_SIGNING_PRIVATE_KEY / _PUBLIC_KEY
PrivateKeyEnvs ==
    {UnsetKey, EnvKey(FALSE, 0, 0, 0), EnvKey(TRUE, PublicKeySize, 1, 1)}
    \cup {EnvKey(TRUE, PrivateKeySize, s, p) : s \in Seeds, p \in Seeds}
PublicKeyEnvs ==
    {UnsetKey, EnvKey(FALSE, 0, 0, 0), EnvKey(TRUE, 16, 0, 1)}
    \cup {EnvKey(TRUE, PublicKeySize, 0, p) : p \in Seeds}
EphemeralEnvs == {s_empty, s_1, s_true, s_TRUE, s_True, s_false}

-----------------------------------------------------------------------------
(* internal/db: the gateways table                                         *)

NilInt == -1   \* a nil *int (max_users IS NULL)

GatewayIds == {"gw-a", "gw-b", "gw-hp"}
Regions    == {"us-east-1", "eu-west-1"}
QueryLimit == 100
HoneypotLimit == 10

StrSlice(items) == [nil |-> FALSE, items |-> items]
NilStrSlice     == [nil |-> TRUE,  items |-> << >>]

\* a row as rows.Scan fills it; Load is not a column and stays zero
Gateway(id, key, addr, region, cur, max, status, hp) ==
    [ID |-> id, PublicKey |-> KeyBytes(PublicKeySize, key), IPAddress |-> addr,
     Port |-> 443, TransportTypes |-> StrSlice(<<"masque", "xtls">>),
     Region |-> region, CurrentUsers |-> cur, MaxUsers |-> max,
     Status |-> status, IsHoneypot |-> hp, Load |-> [num |-> 0, den |-> 1]]

Statuses == {"active", "degraded", "offline", "maintenance"}

\* the tables the model starts from: two real gateways and one decoy in
\* us-east-1, nothing in eu-west-1
Directories ==
    { [id \in GatewayIds |->
         CASE id = "gw-a"  -> Gateway(id, 11, "10.0.0.1", "us-east-1", ca, MaxCapacity, "active", FALSE)
           [] id = "gw-b"  -> Gateway(id, 12, "10.0.0.2", "us-east-1", 0, mb, "active", FALSE)
           [] id = "gw-hp" -> Gateway(id, 13, "10.0.0.9", "us-east-1", 0, MaxCapacity, sh, TRUE)]
      : ca \in 0..MaxUsersConnected, mb \in {NilInt, MaxCapacity},
        sh \in {"active", "maintenance"} }

BaseDirectory ==
    CHOOSE d \in Directories :
        /\ d["gw-a"].CurrentUsers = 1
        /\ d["gw-b"].MaxUsers = NilInt
        /\ d["gw-hp"].Status = "active"

\* all sequences that list the members of S once each
SeqsOf(S) ==
    LET n == Cardinality(S) IN
    {f \in [1..n -> S] : \A i, j \in 1..n : f[i] = f[j] => i = j}

Take(s, n) == IF Len(s) > n THEN SubSeq(s, 1, n) ELSE s

\* the possible results of a SELECT ... ORDER BY current_users ASC LIMIT n:
\* rows with equal current_users come in any order
QueryRows(rows, limit) ==
    {Take(f, limit) : f \in {g \in SeqsOf(rows) :
        \A i, j \in 1..Len(g) : i < j => g[i].CurrentUsers <= g[j].CurrentUsers}}

\* GetGatewaysByRegion without the is_honeypot condition of the query
GetGatewaysByRegion_decoysIncluded(dir, region) ==
    QueryRows({dir[id] : id \in {i \in DOMAIN dir :
                  /\ dir[i].Region = region
                  /\ dir[i].Status = "active"}}, QueryLimit)

GetGatewaysByRegion(dir, region) ==
    QueryRows({dir[id] : id \in {i \in DOMAIN dir :
                  /\ dir[i].Region = region
                  /\ dir[i].Status = "active"
                  /\ dir[i].IsHoneypot = FALSE}}, QueryLimit)

GetHoneypotGateways(dir, region) ==
    QueryRows({dir[id] : id \in {i \in DOMAIN dir :
                  /\ dir[i].Region = region
                  /\ dir[i].Status = "active"
                  /\ dir[i].IsHoneypot = TRUE}}, HoneypotLimit)

-----------------------------------------------------------------------------
(* load of a gateway, a float64 kept as a reduced fraction                 *)

RECURSIVE GCD(_, _)
GCD(a, b) == IF b = 0 THEN a ELSE GCD(b, a % b)

Frac(n, d) ==
    LET g == GCD(n, d) IN
    IF g = 0 THEN [num |-> 0, den |-> 1] ELSE [num |-> n \div g, den |-> d \div g]

Half == [num |-> 1, den |-> 2]

FracLess(a, b) == a.num * b.den < b.num * a.den

calculateLoad(gw) ==
    IF gw.MaxUsers = NilInt \/ gw.MaxUsers = 0
    THEN Half
    ELSE Frac(gw.CurrentUsers, gw.MaxUsers)

\* sort.Slice on at most 12 elements is an insertion sort: an element moves
\* left while it is less than its left neighbour
RECURSIVE insertByLoad(_, _)
insertByLoad(sorted, gw) ==
    IF sorted = << >> THEN <<gw>>
    ELSE IF FracLess(calculateLoad(gw), calculateLoad(sorted[Len(sorted)]))
         THEN Append(insertByLoad(SubSeq(sorted, 1, Len(sorted) - 1), gw),
                     sorted[Len(sorted)])
         ELSE Append(sorted, gw)

RECURSIVE sortByLoad(_)
sortByLoad(gateways) ==
    IF gateways = << >> THEN << >>
    ELSE insertByLoad(sortByLoad(SubSeq(gateways, 1, Len(gateways) - 1)),
                      gateways[Len(gateways)])

-----------------------------------------------------------------------------
(* internal/config: pack building                                          *)

maxGateways == 5

\* config.AttestationResult as the handler passes it; NilVerdict is a nil pointer
NilVerdict == [nil |-> TRUE, IsValid |-> FALSE, DeviceIntegrity |-> ""]
Verdict(valid, tier) == [nil |-> FALSE, IsValid |-> valid, DeviceIntegrity |-> tier]

GatewayInfoOf(gw) ==
    [ID |-> gw.ID, Address |-> gw.IPAddress, Port |-> gw.Port,
     Transports |-> gw.TransportTypes, Region |-> gw.Region,
     Load |-> calculateLoad(gw), IsHoneypot |-> FALSE, PublicKey |-> gw.PublicKey]

\* the outcome of a directory lookup: an error, or the rows
LookupFailed == [err |-> "failed to query gateways", rows |-> << >>]
LookupOk(rows) == [err |-> "", rows |-> rows]

\* the test that guards the honeypot branch of selectGateways
honeypotBranchTaken(attestationResult) ==
    attestationResult.nil \/ ~attestationResult.IsValid

\* selectGateways, given the outcome of its GetGatewaysByRegion call.  The
\* branch for a nil or invalid attestationResult is empty in the code, so
\* the result does not depend on attestationResult.
selectGateways(lookup, attestationResult) ==
    IF lookup.err # "" THEN [err |-> lookup.err, gateways |-> << >>]
    ELSE LET sorted == sortByLoad(lookup.rows)
             top    == Take(sorted, maxGateways)
         IN  [err |-> "", gateways |-> [i \in 1..Len(top) |-> GatewayInfoOf(top[i])]]

getTransportConfigs ==
    << [Type |-> "masque", Endpoints |-> StrSlice(<<"icloud.com", "www.icloud.com">>),
        Fingerprint |-> "apple_icloud", Options |-> <<"quic_version", "1">>],
       [Type |-> "xtls", Endpoints |-> StrSlice(<<"microsoft.com", "www.microsoft.com">>),
        Fingerprint |-> "microsoft_edge", Options |-> <<"reality", "true">>],
       [Type |-> "parasite", Endpoints |-> StrSlice(<<"cdn.cloudflare.com", "cdnjs.cloudflare.com">>),
        Fingerprint |-> "", Options |-> <<"header_encoding", "base64url">>],
       [Type |-> "ssh", Endpoints |-> StrSlice(<< >>),
        Fingerprint |-> "", Options |-> <<"obfuscated", "true">>] >>

getDiscoveryConfig ==
    [Channels |-> StrSlice(<<"gps", "fm_rds", "dtv", "plc", "gsm", "lte", "blockchain">>),
     ScanInterval |-> 300, BatteryAware |-> TRUE]


(* encoding/json: Marshal of a SignedConfigPack.  Struct fields come in    *)
(* declaration order, map keys sorted, a nil slice or map is null, an      *)
(* empty one is [] or {}, a byte slice is a base64 string.                 *)

JNull      == <<"null">>
JStr(str)  == <<"string", str>>
JInt(n)    == <<"number", n>>
JBool(b)   == <<"bool", b>>
JFloat(f)  == <<"float", f.num, f.den>>
JArr(xs)   == <<"array", xs>>
JObj(ms)   == <<"object", ms>>
JBytes(b)  == IF b.nil THEN JNull ELSE <<"base64", b.len, b.id>>
JStrs(sl)  == IF sl.nil THEN JNull
              ELSE JArr([i \in 1..Len(sl.items) |-> JStr(sl.items[i])])

marshalGateway(g) ==
    JObj(<< <<"id", JStr(g.ID)>>, <<"address", JStr(g.Address)>>,
            <<"port", JInt(g.Port)>>, <<"transports", JStrs(g.Transports)>>,
            <<"region", JStr(g.Region)>>, <<"load", JFloat(g.Load)>>,
            <<"is_honeypot", JBool(g.IsHoneypot)>>,
            <<"public_key", JBytes(g.PublicKey)>> >>)

marshalTransport(t) ==
    JObj(<< <<"type", JStr(t.Type)>>, <<"endpoints", JStrs(t.Endpoints)>>,
            <<"fingerprint", JStr(t.Fingerprint)>>,
            <<"options", JObj(<< <<t.Options[1], JStr(t.Options[2])>> >>)>> >>)

marshalDiscovery(d) ==
    JObj(<< <<"channels", JStrs(d.Channels)>>,
            <<"scan_interval", JInt(d.ScanInterval)>>,
            <<"battery_aware", JBool(d.BatteryAware)>> >>)

\* the metadata keys of the model in the byte order json.Marshal sorts them
MetaKeyOrder == <<"client_id", "injected", "region">>

RECURSIVE marshalMembers(_, _)
marshalMembers(m, i) ==
    IF i > Len(MetaKeyOrder) THEN << >>
    ELSE IF MetaKeyOrder[i] \in DOMAIN m
         THEN << <<MetaKeyOrder[i], JStr(m[MetaKeyOrder[i]])>> >> \o marshalMembers(m, i + 1)
         ELSE marshalMembers(m, i + 1)

marshalMetadata(m) == JObj(marshalMembers(m, 1))

marshalSignature(sig) ==
    IF sig.nil THEN JNull ELSE <<"base64", sig.len, sig.seed, sig.A, sig.flip, sig.msg>>

Marshal(p) ==
    << <<"version", JStr(p.Version)>>,
       <<"timestamp", JInt(p.Timestamp)>>,
       <<"gateways", JArr([i \in 1..Len(p.Gateways) |-> marshalGateway(p.Gateways[i])])>>,
       <<"transports", JArr([i \in 1..Len(p.Transports) |-> marshalTransport(p.Transports[i])])>>,
       <<"discovery", marshalDiscovery(p.Discovery)>>,
       <<"metadata", marshalMetadata(p.Metadata)>>,
       <<"signature", marshalSignature(p.Signature)>>,
       <<"public_key", JBytes(p.PublicKey)>> >>

\* signConfigPack: sign the serialisation of a copy whose signature is nil
signConfigPack(svc, p) ==
    LET packCopy == [p EXCEPT !.Signature = NilSignature]
    IN  Sign(svc.privateKey, Marshal(packCopy))

\* VerifyConfigPack: "true", "false", or "panic" when ed25519.Verify panics
VerifyConfigPack(svc, p) ==
    LET packCopy  == [p EXCEPT !.Signature = NilSignature]
        signature == p.Signature
    IN  Verify(p.PublicKey, Marshal(packCopy), signature)

NoPack == [Version |-> "", Timestamp |-> 0, Gateways |-> << >>, Transports |-> << >>,
           Discovery |-> [Channels |-> NilStrSlice, ScanInterval |-> 0, BatteryAware |-> FALSE],
           Metadata |-> << >>, Signature |-> NilSignature, PublicKey |-> NilBytes]

\* GenerateConfigPack, given the lookup outcome and the clock reading
GenerateConfigPack(svc, clientID, region, attestationResult, lookup, now) ==
    LET sel == selectGateways(lookup, attestationResult) IN
    IF sel.err # "" THEN [err |-> sel.err, pack |-> NoPack]
    ELSE LET unsigned ==
                 [Version |-> "1.0", Timestamp |-> now, Gateways |-> sel.gateways,
                  Transports |-> getTransportConfigs, Discovery |-> getDiscoveryConfig,
                  Metadata |-> [k \in {"client_id", "region"} |->
                                   IF k = "client_id" THEN clientID ELSE region],
                  Signature |-> NilSignature, PublicKey |-> svc.publicKey]
         IN  [err |-> "",
              pack |-> [unsigned EXCEPT !.Signature = signConfigPack(svc, unsigned)]]


-----------------------------------------------------------------------------
(* Modifications of a signed pack by whoever holds it                      *)

TamperedGateway ==
    [ID |-> "tampered", Address |-> "", Port |-> 0, Transports |-> NilStrSlice,
     Region |-> "", Load |-> [num |-> 0, den |-> 1], IsHoneypot |-> FALSE,
     PublicKey |-> NilBytes]

GatewayTampers(g) ==
    { [kind |-> "gateway_id",          g |-> [g EXCEPT !.ID = "tampered"]],
      [kind |-> "gateway_address",     g |-> [g EXCEPT !.Address = "203.0.113.7"]],
      [kind |-> "gateway_port",        g |-> [g EXCEPT !.Port = g.Port + 1]],
      [kind |-> "gateway_transports",  g |-> [g EXCEPT !.Transports = NilStrSlice]],
      [kind |-> "gateway_region",      g |-> [g EXCEPT !.Region = "xx-none-1"]],
      [kind |-> "gateway_load",        g |-> [g EXCEPT !.Load =
                                          IF g.Load = Half THEN [num |-> 0, den |-> 1] ELSE Half]],
      [kind |-> "gateway_is_honeypot", g |-> [g EXCEPT !.IsHoneypot = ~g.IsHoneypot]],
      [kind |-> "gateway_public_key",  g |-> [g EXCEPT !.PublicKey = KeyBytes(PublicKeySize, 99)]] }

FieldTampers(p) ==
    { [kind |-> "version",   pack |-> [p EXCEPT !.Version = "2.0"]],
      [kind |-> "timestamp", pack |-> [p EXCEPT !.Timestamp = 0]],
      [kind |-> "gateway_append",
       pack |-> [p EXCEPT !.Gateways = Append(p.Gateways, TamperedGateway)]],
      [kind |-> "metadata_value",
       pack |-> [p EXCEPT !.Metadata = [p.Metadata EXCEPT !["client_id"] = "attacker"]]],
      [kind |-> "metadata_add",
       pack |-> [p EXCEPT !.Metadata = [k \in DOMAIN p.Metadata \cup {"injected"} |->
                                           IF k = "injected" THEN "x" ELSE p.Metadata[k]]]],
      [kind |-> "metadata_remove",
       pack |-> [p EXCEPT !.Metadata = [k \in {"client_id"} |-> p.Metadata[k]]]],
      [kind |-> "transport",
       pack |-> [p EXCEPT !.Transports[1].Fingerprint = "chrome"]],
      [kind |-> "transport_remove",
       pack |-> [p EXCEPT !.Transports = SubSeq(p.Transports, 1, Len(p.Transports) - 1)]],
      [kind |-> "discovery",
       pack |-> [p EXCEPT !.Discovery.ScanInterval = 1]] }
    \cup
    (IF p.Gateways = << >> THEN {} ELSE
       { [kind |-> "gateway_remove",
          pack |-> [p EXCEPT !.Gateways = SubSeq(p.Gateways, 1, Len(p.Gateways) - 1)]] }
       \cup { [kind |-> t.kind, pack |-> [p EXCEPT !.Gateways[1] = t.g]]
              : t \in GatewayTampers(p.Gateways[1]) })
    \cup
    { [kind |-> "public_key_other", pack |-> [p EXCEPT !.PublicKey = KeyBytes(PublicKeySize, k)]]
      : k \in {PubOf(sd) : sd \in Seeds} \ {p.PublicKey.id} }

KeyShapeTampers(p) ==
    { [kind |-> "public_key_nil",   pack |-> [p EXCEPT !.PublicKey = NilBytes]],
      [kind |-> "public_key_empty", pack |-> [p EXCEPT !.PublicKey = EmptyBytes]],
      [kind |-> "public_key_short", pack |-> [p EXCEPT !.PublicKey = KeyBytes(16, p.PublicKey.id)]],
      [kind |-> "signature_nil",    pack |-> [p EXCEPT !.Signature = NilSignature]],
      [kind |-> "signature_empty",  pack |-> [p EXCEPT !.Signature = EmptySignature]],
      [kind |-> "signature_short",  pack |-> [p EXCEPT !.Signature.len = 32]] }

SignatureTampers(p) ==
    { [kind |-> "signature_flip", pack |-> [p EXCEPT !.Signature.flip = 1]] }

Tampers(p) == FieldTampers(p) \cup KeyShapeTampers(p) \cup SignatureTampers(p)

FieldTamperKinds ==
    {"version", "timestamp", "gateway_append", "gateway_remove", "gateway_id",
     "gateway_address", "gateway_port", "gateway_transports", "gateway_region",
     "gateway_load", "gateway_is_honeypot", "gateway_public_key", "metadata_value",
     "metadata_add", "metadata_remove", "transport", "transport_remove", "discovery",
     "public_key_other", "public_key_nil", "public_key_empty", "public_key_short"}
KeyShapeTamperKinds ==
    {"public_key_nil", "public_key_empty", "public_key_short",
     "signature_nil", "signature_empty", "signature_short"}


-----------------------------------------------------------------------------
(* internal/attestation                                                    *)

STRONG == "MEETS_STRONG_INTEGRITY"
DEVICE == "MEETS_DEVICE_INTEGRITY"
BASIC  == "MEETS_BASIC_INTEGRITY"
BYPASS == "BYPASS_ENABLED"

DefaultMaxAgeSeconds == 300
ConfiguredPackage == "org.lumenlink.app"

\* *AttestationResult; NilResult is the nil pointer
NilResult ==
    [nil |-> TRUE, IsValid |-> FALSE, DeviceIntegrity |-> "", Platform |-> "",
     DeviceID |-> "", Reason |-> ""]
Result(valid, tier, platform, deviceID, reason) ==
    [nil |-> FALSE, IsValid |-> valid, DeviceIntegrity |-> tier, Platform |-> platform,
     DeviceID |-> deviceID, Reason |-> reason]

envAllowsBypass(e) ==
    LET value == ToLower(e.LUMENLINK_ALLOW_ATTESTATION_BYPASS)
    IN  value = s_1 \/ value = s_true \/ value = s_yes

\* NewAttestationService: the fields the verifiers read
AttestationServices ==
    [playIntegrityPackageName : {"", ConfiguredPackage},
     playIntegrityAllowBasic : BOOLEAN,
     playIntegrityRequireLicensed : BOOLEAN,
     playIntegrityMaxAge : {DefaultMaxAgeSeconds * 1000},
     appleTeamID : {"", "TEAMID1234"},
     appleBundleID : {"org.lumenlink.ios"},
     allowBypass : BOOLEAN]

NoAttestationService ==
    [playIntegrityPackageName |-> "", playIntegrityAllowBasic |-> FALSE,
     playIntegrityRequireLicensed |-> TRUE,
     playIntegrityMaxAge |-> DefaultMaxAgeSeconds * 1000,
     appleTeamID |-> "", appleBundleID |-> "", allowBypass |-> FALSE]

\* playIntegrityInitOnce together with the fields its body sets
InitNotRun == [done |-> FALSE, err |-> "", client |-> FALSE]

\* initPlayIntegrityClient: the body runs on the first call only;
\* newServiceOk is whether playintegrity.NewService succeeds
initPlayIntegrityClient(svc, once, newServiceOk) ==
    IF once.done THEN once
    ELSE IF svc.playIntegrityPackageName = ""
         THEN [done |-> TRUE, err |-> "missing package name", client |-> FALSE]
         ELSE IF ~newServiceOk
              THEN [done |-> TRUE, err |-> "new service failed", client |-> FALSE]
              ELSE [done |-> TRUE, err |-> "", client |-> TRUE]

hasIntegrityVerdict(verdicts, verdict) ==
    \E i \in 1..Len(verdicts) : verdicts[i] = verdict

\* bestDeviceIntegrity with the basic tier looked for before the device tier
bestDeviceIntegrity_basicFirst(verdicts) ==
    IF hasIntegrityVerdict(verdicts, STRONG) THEN STRONG
    ELSE IF hasIntegrityVerdict(verdicts, BASIC) THEN BASIC
    ELSE IF hasIntegrityVerdict(verdicts, DEVICE) THEN DEVICE
    ELSE "UNKNOWN"

bestDeviceIntegrity(verdicts) ==
    IF hasIntegrityVerdict(verdicts, STRONG) THEN STRONG
    ELSE IF hasIntegrityVerdict(verdicts, DEVICE) THEN DEVICE
    ELSE IF hasIntegrityVerdict(verdicts, BASIC) THEN BASIC
    ELSE "UNKNOWN"

\* the device-integrity part of verifyPlayIntegrity (after the licensing check)
deviceIntegrityDecision(svc, req, verdicts) ==
    LET tier == bestDeviceIntegrity(verdicts) IN
    IF hasIntegrityVerdict(verdicts, STRONG)
    THEN Result(TRUE, tier, "android", req.DeviceID, "")
    ELSE IF svc.playIntegrityAllowBasic /\ hasIntegrityVerdict(verdicts, BASIC)
    THEN Result(TRUE, tier, "android", req.DeviceID, "")
    ELSE Result(FALSE, tier, "android", req.DeviceID, "device_integrity_failed")

\* what DecodeIntegrityToken(...).Do() answered
NoBackend ==
    [err |-> FALSE, payloadNil |-> TRUE, requestDetailsNil |-> TRUE,
     RequestPackageName |-> "", TimestampMillis |-> [kind |-> "empty", ms |-> 0],
     AppIntegrity |-> [nil |-> TRUE, AppRecognitionVerdict |-> ""],
     AccountDetails |-> [nil |-> TRUE, AppLicensingVerdict |-> ""],
     DeviceIntegrity |-> [nil |-> TRUE, DeviceRecognitionVerdict |-> << >>],
     jsonOk |-> FALSE, verifyOk |-> FALSE]

verifyPlayIntegrity(svc, once, req, b, now) ==
    LET invalid(reason) ==
            [result |-> Result(FALSE, "", "android", req.DeviceID, reason), err |-> ""]
    IN
    IF once.err # ""
    THEN IF svc.allowBypass
         THEN [result |-> Result(TRUE, BYPASS, "android", req.DeviceID, ""), err |-> ""]
         ELSE invalid("play_integrity_not_configured")
    ELSE IF b.err
    THEN [result |-> Result(FALSE, "", "android", req.DeviceID, "play_integrity_api_error"),
          err |-> "decode integrity token failed"]
    ELSE IF b.payloadNil \/ b.requestDetailsNil
    THEN invalid("missing_token_payload")
    ELSE IF /\ b.RequestPackageName # ""
            /\ b.RequestPackageName # svc.playIntegrityPackageName
    THEN invalid("package_name_mismatch")
    ELSE IF /\ b.TimestampMillis.kind = "number"
            /\ now - b.TimestampMillis.ms > svc.playIntegrityMaxAge
    THEN invalid("attestation_expired")
    ELSE IF b.AppIntegrity.nil \/ b.AppIntegrity.AppRecognitionVerdict # "PLAY_RECOGNIZED"
    THEN invalid("app_not_recognized")
    ELSE IF /\ svc.playIntegrityRequireLicensed
            /\ (b.AccountDetails.nil \/ b.AccountDetails.AppLicensingVerdict # "LICENSED")
    THEN invalid("app_not_licensed")
    ELSE [result |-> deviceIntegrityDecision(svc, req,
                        IF b.DeviceIntegrity.nil THEN << >>
                        ELSE b.DeviceIntegrity.DeviceRecognitionVerdict),
          err |-> ""]

appleAppID(svc) ==
    IF svc.appleTeamID = "" \/ svc.appleBundleID = "" THEN ""
    ELSE "configured"

\* b.jsonOk: the token unmarshals; b.verifyOk: aar.Verify returns no error
verifyDCAppAttest(svc, req, b) ==
    IF req.Token = ""
    THEN [result |-> Result(FALSE, "", "ios", req.DeviceID, "missing_token"), err |-> ""]
    ELSE IF appleAppID(svc) = ""
    THEN IF svc.allowBypass
         THEN [result |-> Result(TRUE, BYPASS, "ios", req.DeviceID, ""), err |-> ""]
         ELSE [result |-> Result(FALSE, "", "ios", req.DeviceID, "missing_dcappattest_config"),
               err |-> ""]
    ELSE IF ~b.jsonOk
    THEN [result |-> Result(FALSE, "", "ios", req.DeviceID, "invalid_attestation_format"),
          err |-> ""]
    ELSE IF ~b.verifyOk
    THEN [result |-> Result(FALSE, "", "ios", req.DeviceID, "dcappattest_verification_failed"),
          err |-> "attestation verify failed"]
    ELSE [result |-> Result(TRUE, STRONG, "ios", req.DeviceID, ""), err |-> ""]

\* VerifyAttestation without the default branch: every platform that is not
\* android goes to the iOS verifier
VerifyAttestation_noDefaultBranch(svc, once, req, b, now) ==
    LET r == IF req.Platform = "android"
             THEN verifyPlayIntegrity(svc, once, req, b, now)
             ELSE verifyDCAppAttest(svc, req, b)
    IN  IF r.err # ""
        THEN [result |-> Result(FALSE, "", "", "", "verification_error"), err |-> r.err,
              stored |-> FALSE]
        ELSE [result |-> r.result, err |-> "", stored |-> TRUE]

\* VerifyAttestation without the error branch: the verifier's error is dropped
VerifyAttestation_errorDropped(svc, once, req, b, now) ==
    IF req.Platform \notin {"android", "ios"}
    THEN [result |-> Result(FALSE, "", "", "", "unsupported_platform"), err |-> "",
          stored |-> FALSE]
    ELSE LET r == IF req.Platform = "android"
                  THEN verifyPlayIntegrity(svc, once, req, b, now)
                  ELSE verifyDCAppAttest(svc, req, b)
         IN  [result |-> r.result, err |-> "", stored |-> TRUE]

\* VerifyAttestation; stored tells whether storeAttestation was called
VerifyAttestation(svc, once, req, b, now) ==
    IF req.Platform \notin {"android", "ios"}
    THEN [result |-> Result(FALSE, "", "", "", "unsupported_platform"), err |-> "",
          stored |-> FALSE]
    ELSE LET r == IF req.Platform = "android"
                  THEN verifyPlayIntegrity(svc, once, req, b, now)
                  ELSE verifyDCAppAttest(svc, req, b)
         IN  IF r.err # ""
             THEN [result |-> Result(FALSE, "", "", "", "verification_error"), err |-> r.err,
                   stored |-> FALSE]
             ELSE [result |-> r.result, err |-> "", stored |-> TRUE]

\* ShouldUseHoneypot without the tier test
ShouldUseHoneypot_tierIgnored(res) ==
    IF res.nil THEN TRUE
    ELSE IF ~res.IsValid THEN TRUE
    ELSE FALSE

ShouldUseHoneypot(res) ==
    IF res.nil THEN TRUE
    ELSE IF ~res.IsValid THEN TRUE
    ELSE IF res.DeviceIntegrity # STRONG THEN TRUE
    ELSE FALSE


-----------------------------------------------------------------------------
(* internal/api: the handlers                                              *)

NoResp ==
    [op |-> "", status |-> 0, error |-> "", hasPack |-> FALSE, hasVerdict |-> FALSE,
     Verified |-> FALSE, DeviceIntegrity |-> "", Reason |-> ""]
ErrorResp(op, status, error) ==
    [NoResp EXCEPT !.op = op, !.status = status, !.error = error]

NoRequest == [Platform |-> "", Token |-> "", DeviceID |-> "", KeyID |-> ""]

\* Handler.VerifyAttestation, given the JSON body and what the service returns
HandlerVerifyAttestation(req, va) ==
    IF req.Platform = "" \/ req.Token = "" \/ req.DeviceID = ""
    THEN ErrorResp("VerifyAttestation", 400, "binding")
    ELSE IF va.err # ""
    THEN ErrorResp("VerifyAttestation", 500, "verification_failed")
    ELSE [op |-> "VerifyAttestation",
          status |-> IF va.result.IsValid THEN 200 ELSE 401,
          error |-> "", hasPack |-> FALSE, hasVerdict |-> TRUE,
          Verified |-> va.result.IsValid, DeviceIntegrity |-> va.result.DeviceIntegrity,
          Reason |-> IF va.result.IsValid THEN "" ELSE va.result.Reason]

mapCountryToRegion(country) ==
    CASE country = "CN" -> "ap-east-1"
      [] country = "IR" -> "me-south-1"
      [] country = "RU" -> "eu-central-1"
      [] country = "US" -> "us-east-1"
      [] country = "GB" -> "eu-west-1"
      [] country = "DE" -> "eu-central-1"
      [] OTHER -> "us-east-1"

\* the region GetConfig asks a pack for
configRegion(req, country) ==
    IF req.Region # "" THEN req.Region
    ELSE IF country # "" THEN mapCountryToRegion(country)
    ELSE "us-east-1"

\* the *config.AttestationResult GetConfig passes on
configAttestationResult(calledAttestation, va) ==
    IF ~calledAttestation THEN NilVerdict
    ELSE Verdict(va.result.IsValid, va.result.DeviceIntegrity)

\* Handler.GetConfig, given the body, the CF-IPCountry header, what
\* VerifyAttestation returns if it is called and what GenerateConfigPack returns
GetConfig(req, va, gen) ==
    IF req.DeviceID = "" \/ req.Platform = ""
    THEN ErrorResp("GetConfig", 400, "binding")
    ELSE IF req.Attestation # "" /\ va.err # ""
    THEN ErrorResp("GetConfig", 500, "attestation_verification_failed")
    ELSE IF gen.err # ""
    THEN ErrorResp("GetConfig", 500, "config_generation_failed")
    ELSE [NoResp EXCEPT !.op = "GetConfig", !.status = 200, !.hasPack = TRUE]

-----------------------------------------------------------------------------
(* cmd/server: main                                                        *)

NoEnv ==
    [GO_ENV |-> s_empty,
     LUMENLINK_ALLOW_ATTESTATION_BYPASS |-> s_empty,
     LUMENLINK_ALLOW_EPHEMERAL_SIGNING_KEY |-> s_empty,
     LUMENLINK_CONFIG_SIGNING_PRIVATE_KEY |-> UnsetKey,
     LUMENLINK_CONFIG_SIGNING_PUBLIC_KEY |-> UnsetKey,
     DATABASE_URL |-> FALSE, REDIS_URL |-> FALSE]

GuardMessage == "LUMENLINK_ALLOW_ATTESTATION_BYPASS must not be enabled in production"

\* checkProductionAttestationGuard without the value "yes"
checkProductionAttestationGuard_yesAllowed(e) ==
    IF ToLower(e.GO_ENV) # s_production THEN ""
    ELSE LET v == ToLower(e.LUMENLINK_ALLOW_ATTESTATION_BYPASS) IN
         IF v = s_true \/ v = s_1 THEN GuardMessage ELSE ""

\* checkProductionAttestationGuard: the error message, "" for nil
checkProductionAttestationGuard(e) ==
    IF ToLower(e.GO_ENV) # s_production THEN ""
    ELSE LET v == ToLower(e.LUMENLINK_ALLOW_ATTESTATION_BYPASS) IN
         IF v = s_true \/ v = s_1 \/ v = s_yes THEN GuardMessage ELSE ""

\* the production signing-key check of main: the log.Fatal message, or ""
productionSigningKeyCheck(e) ==
    IF ToLower(e.GO_ENV) = s_production
    THEN IF e.LUMENLINK_ALLOW_EPHEMERAL_SIGNING_KEY = s_true
         THEN "LUMENLINK_ALLOW_EPHEMERAL_SIGNING_KEY must be false in production"
         ELSE IF ~e.LUMENLINK_CONFIG_SIGNING_PRIVATE_KEY.set
              THEN "LUMENLINK_CONFIG_SIGNING_PRIVATE_KEY is required in production"
              ELSE ""
    ELSE ""

\* NewAttestationService with the Play Integrity and Apple variables unset
NewAttestationService(e) ==
    [NoAttestationService EXCEPT !.allowBypass = envAllowsBypass(e)]


-----------------------------------------------------------------------------
(* Values of the variables an operation does not touch                     *)

NoCall == [called |-> FALSE, clientID |-> "", region |-> "", verdict |-> NilVerdict]
NoHoneypot == [called |-> FALSE, arg |-> NilResult, value |-> FALSE]
NoAudit == << >>

StartIdle ==
    /\ env = NoEnv
    /\ pc = "serving"
    /\ fatal = ""

PackIdle ==
    /\ pack = NoPack
    /\ genErr = ""
    /\ lastCall = NoCall
    /\ tamper = "none"
    /\ verified = "none"

AttestIdle ==
    /\ playInit = InitNotRun
    /\ request = NoRequest
    /\ backend = NoBackend
    /\ result = NilResult
    /\ verr = ""
    /\ honeypot = NoHoneypot
    /\ audit = NoAudit

OnceIdle ==
    /\ callers = << >>
    /\ initMu = 0
    /\ bodyRuns = 0

\* no balancer call has been made
NoGeo ==
    [op |-> "", clientRegion |-> "", preferredRegions |-> << >>, region |-> "",
     count |-> 0, rows |-> << >>, lookupFailed |-> FALSE, err |-> "",
     gateways |-> << >>, load |-> [num |-> 0, den |-> 1]]

GeoIdle == geo = NoGeo

\* no rollout variable set, no rollout call made
NoRolloutEnv == [key \in {} |-> << >>]
RolloutIdle == intBits = 64 /\ rolloutEnv = NoRolloutEnv /\ rollout = << >>

\* the services NewConfigService can return without error
BaseService == NewConfigService(UnsetKey, UnsetKey, s_true, 1).svc

ConfigServices ==
    {r.svc : r \in {c \in {NewConfigService(pk, pb, eph, sd) :
                              pk \in PrivateKeyEnvs, pb \in PublicKeyEnvs,
                              eph \in EphemeralEnvs, sd \in Seeds} : c.err = ""}}

Clock == {1700000000}
ClientIDs == {"client-1"}

\* the verdicts a caller can hand to GenerateConfigPack
Verdicts ==
    {NilVerdict, Verdict(FALSE, ""), Verdict(TRUE, STRONG), Verdict(TRUE, BASIC),
     Verdict(TRUE, BYPASS)}

Lookups(dir, region) ==
    {LookupFailed} \cup {LookupOk(rows) : rows \in GetGatewaysByRegion(dir, region)}

-----------------------------------------------------------------------------
(* Specification of pack building, signing and verification                *)

InitPack ==
    /\ StartIdle
    /\ \/ configService \in ConfigServices /\ directory = BaseDirectory
       \/ configService = BaseService /\ directory \in Directories
    /\ attestService = NoAttestationService
    /\ resp = NoResp
    /\ PackIdle
    /\ AttestIdle
    /\ OnceIdle
    /\ GeoIdle
    /\ RolloutIdle

\* a caller asks for a pack
CallGenerateConfigPack ==
    \E clientID \in ClientIDs, region \in Regions, v \in Verdicts, now \in Clock :
      \E lookup \in Lookups(directory, region) :
        LET gen == GenerateConfigPack(configService, clientID, region, v, lookup, now) IN
        /\ pack' = gen.pack
        /\ genErr' = gen.err
        /\ lastCall' = [called |-> TRUE, clientID |-> clientID, region |-> region,
                        verdict |-> v]
        /\ tamper' = "none"
        /\ verified' = "none"
        /\ UNCHANGED <<startVars, onceVars, geo, rolloutVars, configService, directory, attestService, resp, attestVars>>

\* the holder of a signed pack modifies it once
TamperPack ==
    /\ lastCall.called
    /\ genErr = ""
    /\ tamper = "none"
    /\ \E t \in Tampers(pack) :
         /\ pack' = t.pack
         /\ tamper' = t.kind
    /\ verified' = "none"
    /\ UNCHANGED <<startVars, onceVars, geo, rolloutVars, configService, directory, attestService, resp, attestVars,
                   genErr, lastCall>>

CallVerifyConfigPack ==
    /\ lastCall.called
    /\ genErr = ""
    /\ verified' = VerifyConfigPack(configService, pack)
    /\ UNCHANGED <<startVars, onceVars, geo, rolloutVars, configService, directory, attestService, resp, attestVars,
                   pack, genErr, lastCall, tamper>>

NextPack == CallGenerateConfigPack \/ TamperPack \/ CallVerifyConfigPack

SpecPack == InitPack /\ [][NextPack]_vars

\* the gateways of the directory that are genuine relays
RealGatewayIds == {directory[id].ID : id \in {i \in DOMAIN directory : ~directory[i].IsHoneypot}}

\* the call returned a pack, and nobody has touched it
PackReturned == lastCall.called /\ genErr = "" /\ tamper = "none"

\* C1: every pack GenerateConfigPack returns verifies, whatever service
\* NewConfigService built and whatever the call's arguments were.
C1_RoundTrip ==
    (PackReturned /\ verified # "none") => verified = "true"

\* C2: after any single modification of a field other than the signature,
\* or a flipped signature bit, VerifyConfigPack returns false.
C2_TamperDetected ==
    (verified # "none" /\ tamper \in FieldTamperKinds \cup {"signature_flip"})
        => verified = "false"

\* C3: a nil, empty or wrong-length signature or public key makes
\* VerifyConfigPack return false; it never panics.
C3_KeyShape ==
    (verified # "none" /\ tamper \in KeyShapeTamperKinds) => verified = "false"

\* C4: an invalid verdict and an active decoy for the region give a pack
\* with at least one decoy-flagged gateway.
C4_DecoyInjection ==
    ( /\ PackReturned
      /\ ~lastCall.verdict.nil /\ ~lastCall.verdict.IsValid
      /\ \E rows \in GetHoneypotGateways(directory, lastCall.region) : rows # << >> )
        => \E i \in 1..Len(pack.Gateways) : pack.Gateways[i].IsHoneypot

\* C5: a nil, invalid or below-strong verdict never gets a genuine relay:
\* no non-decoy gateway of the directory is in the pack.
C5_NoGenuineRelays ==
    ( /\ PackReturned
      /\ \/ lastCall.verdict.nil
         \/ ~lastCall.verdict.IsValid
         \/ lastCall.verdict.DeviceIntegrity # STRONG )
        => \A i \in 1..Len(pack.Gateways) : pack.Gateways[i].ID \notin RealGatewayIds

\* the call was made for a valid verdict of the strong tier
FullyTrusted ==
    /\ ~lastCall.verdict.nil
    /\ lastCall.verdict.IsValid
    /\ lastCall.verdict.DeviceIntegrity = STRONG

\* C30: every gateway of a pack built for a valid strong verdict is a row of
\* the requested region that is active and not a decoy, and is not flagged
\* as a decoy in the pack
C30_TrustedGetsRealGateways ==
    (PackReturned /\ FullyTrusted) =>
        \A i \in 1..Len(pack.Gateways) :
            LET g == pack.Gateways[i] IN
            /\ g.ID \in DOMAIN directory
            /\ directory[g.ID].Region = lastCall.region
            /\ directory[g.ID].Status = "active"
            /\ ~directory[g.ID].IsHoneypot
            /\ g.Region = lastCall.region
            /\ ~g.IsHoneypot

\* a trusted client got the real gateways of a region that has an active decoy
C30_Witness_DecoyLeftOut ==
    /\ PackReturned /\ FullyTrusted
    /\ Len(pack.Gateways) > 1
    /\ \E id \in DOMAIN directory :
          /\ directory[id].IsHoneypot
          /\ directory[id].Status = "active"
          /\ directory[id].Region = lastCall.region


-----------------------------------------------------------------------------
(* Specification of attestation verification and the handlers              *)

\* time.Now() in milliseconds, counted from an epoch that keeps it in range
ClockMs == {1700000000}

VerdictLabels == {STRONG, DEVICE, BASIC, "MEETS_VIRTUAL_INTEGRITY"}
\* deviceRecognitionVerdict: each label at most once, in any order
VerdictLists ==
    {l \in UNION {[1..n -> VerdictLabels] : n \in 0..MaxVerdicts} :
        \A i, j \in 1..Len(l) : l[i] = l[j] => i = j}

\* requestDetails.timestampMillis of a payload: absent, not a number, as old
\* as allowed, one millisecond older, or recent
TimestampValues(now, maxAge) ==
    { [kind |-> "empty", ms |-> 0], [kind |-> "garbage", ms |-> 0],
      [kind |-> "number", ms |-> now - maxAge],
      [kind |-> "number", ms |-> now - maxAge - 1] }

AndroidBackends(now, maxAge) ==
    { [NoBackend EXCEPT !.err = TRUE],
      [NoBackend EXCEPT !.payloadNil = TRUE],
      [NoBackend EXCEPT !.payloadNil = FALSE, !.requestDetailsNil = TRUE] }
    \cup
    [err : {FALSE}, payloadNil : {FALSE}, requestDetailsNil : {FALSE},
     RequestPackageName : {"", ConfiguredPackage, "com.evil.app"},
     TimestampMillis : TimestampValues(now, maxAge),
     AppIntegrity : {[nil |-> TRUE, AppRecognitionVerdict |-> ""],
                     [nil |-> FALSE, AppRecognitionVerdict |-> "PLAY_RECOGNIZED"],
                     [nil |-> FALSE, AppRecognitionVerdict |-> "UNRECOGNIZED_VERSION"]},
     AccountDetails : {[nil |-> TRUE, AppLicensingVerdict |-> ""],
                       [nil |-> FALSE, AppLicensingVerdict |-> "LICENSED"],
                       [nil |-> FALSE, AppLicensingVerdict |-> "UNLICENSED"]},
     DeviceIntegrity : {[nil |-> TRUE, DeviceRecognitionVerdict |-> << >>]}
                       \cup {[nil |-> FALSE, DeviceRecognitionVerdict |-> l] : l \in VerdictLists},
     jsonOk : {FALSE}, verifyOk : {FALSE}]

IosBackends ==
    { [NoBackend EXCEPT !.jsonOk = j, !.verifyOk = v] : j, v \in BOOLEAN }

\* whether the verifier of req.Platform reaches its backend, and what the
\* backend may answer then
Consults(svc, once, req) ==
    \/ req.Platform = "android" /\ once.err = ""
    \/ req.Platform = "ios" /\ req.Token # "" /\ appleAppID(svc) # ""

BackendsFor(svc, once, req, now) ==
    IF ~Consults(svc, once, req) THEN {NoBackend}
    ELSE IF req.Platform = "android" THEN AndroidBackends(now, svc.playIntegrityMaxAge)
    ELSE IosBackends

\* the bodies of POST /api/v1/attest; only iOS clients send a key id
AttestationRequests ==
    {r \in [Platform : {"", "android", "ios", "desktop"}, Token : {"", "token"},
            DeviceID : {"dev-1"}, KeyID : {"", "key-1"}] :
        r.KeyID # "" => r.Platform = "ios"}

ConfigRequests ==
    [DeviceID : {"", "dev-1"}, Platform : {"android", "ios", "desktop"},
     Region : {""}, Attestation : {"", "token"}]

Countries == {"", "US"}

AuditRecord(req, res) ==
    [device_id |-> req.DeviceID, platform |-> req.Platform, token |-> req.Token,
     verified |-> res.IsValid, device_integrity |-> res.DeviceIntegrity]

\* the services the model starts from
InitialAttestationServices ==
    {a \in AttestationServices :
        \/ /\ a.playIntegrityPackageName # "" /\ a.appleTeamID = ""
           /\ (a.allowBypass => ~a.playIntegrityAllowBasic /\ a.playIntegrityRequireLicensed)
        \/ /\ a.playIntegrityPackageName = ""
           /\ ~a.playIntegrityAllowBasic /\ a.playIntegrityRequireLicensed}

Idle == resp = NoResp /\ ~honeypot.called

InitAttest ==
    /\ StartIdle
    /\ configService = BaseService
    /\ directory = BaseDirectory
    /\ attestService \in InitialAttestationServices
    /\ resp = NoResp
    /\ PackIdle
    /\ AttestIdle
    /\ OnceIdle
    /\ GeoIdle
    /\ RolloutIdle

\* the values NewService can take on this call: it is consulted only by the
\* first Android verification
NewServiceOutcomes(req) ==
    IF req.Platform = "android" /\ ~playInit.done THEN BOOLEAN ELSE {TRUE}

OnceAfter(req, newServiceOk) ==
    IF req.Platform = "android"
    THEN initPlayIntegrityClient(attestService, playInit, newServiceOk)
    ELSE playInit

\* POST /api/v1/attest
HandleVerifyAttestation ==
    /\ Idle
    /\ \E req \in AttestationRequests, now \in ClockMs :
       LET bound == req.Platform # "" /\ req.Token # "" /\ req.DeviceID # "" IN
       IF ~bound
       THEN /\ resp' = HandlerVerifyAttestation(req, [result |-> NilResult, err |-> "", stored |-> FALSE])
            /\ UNCHANGED <<playInit, request, backend, result, verr, audit>>
       ELSE \E newServiceOk \in NewServiceOutcomes(req) :
            LET once == OnceAfter(req, newServiceOk) IN
            \E b \in BackendsFor(attestService, once, req, now) :
            LET va == VerifyAttestation(attestService, once, req, b, now) IN
            /\ playInit' = once
            /\ request' = req
            /\ backend' = b
            /\ result' = va.result
            /\ verr' = va.err
            /\ audit' = IF va.stored THEN <<AuditRecord(req, va.result)>> ELSE << >>
            /\ resp' = HandlerVerifyAttestation(req, va)
    /\ UNCHANGED <<startVars, onceVars, geo, rolloutVars, configService, directory, attestService, packVars, honeypot>>

\* POST /api/v1/config
HandleGetConfig ==
    /\ Idle
    /\ \E creq \in ConfigRequests, country \in Countries, now \in ClockMs, ts \in Clock :
       LET bound  == creq.DeviceID # "" /\ creq.Platform # ""
           req    == [Platform |-> creq.Platform, Token |-> creq.Attestation,
                      DeviceID |-> creq.DeviceID, KeyID |-> ""]
           region == configRegion(creq, country)
       IN
       IF ~bound
       THEN /\ resp' = GetConfig(creq, [result |-> NilResult, err |-> "", stored |-> FALSE],
                                 [err |-> "", pack |-> NoPack])
            /\ UNCHANGED <<playInit, request, backend, result, verr, audit, packVars>>
       ELSE IF creq.Attestation = ""
       THEN \E lookup \in Lookups(directory, region) :
            LET gen == GenerateConfigPack(configService, creq.DeviceID, region,
                                          configAttestationResult(FALSE, NilResult), lookup, ts)
            IN
            /\ resp' = GetConfig(creq, [result |-> NilResult, err |-> "", stored |-> FALSE], gen)
            /\ pack' = gen.pack
            /\ genErr' = gen.err
            /\ lastCall' = [called |-> TRUE, clientID |-> creq.DeviceID, region |-> region,
                            verdict |-> NilVerdict]
            /\ UNCHANGED <<playInit, request, backend, result, verr, audit, tamper, verified>>
       ELSE \E newServiceOk \in NewServiceOutcomes(req) :
            LET once == OnceAfter(req, newServiceOk) IN
            \E b \in BackendsFor(attestService, once, req, now) :
            LET va == VerifyAttestation(attestService, once, req, b, now) IN
            /\ playInit' = once
            /\ request' = req
            /\ backend' = b
            /\ result' = va.result
            /\ verr' = va.err
            /\ audit' = IF va.stored THEN <<AuditRecord(req, va.result)>> ELSE << >>
            /\ IF va.err # ""
               THEN /\ resp' = GetConfig(creq, va, [err |-> "", pack |-> NoPack])
                    /\ UNCHANGED packVars
               ELSE \E lookup \in Lookups(directory, region) :
                    LET v   == configAttestationResult(TRUE, va)
                        gen == GenerateConfigPack(configService, creq.DeviceID, region,
                                                  v, lookup, ts)
                    IN
                    /\ resp' = GetConfig(creq, va, gen)
                    /\ pack' = gen.pack
                    /\ genErr' = gen.err
                    /\ lastCall' = [called |-> TRUE, clientID |-> creq.DeviceID,
                                    region |-> region, verdict |-> v]
                    /\ UNCHANGED <<tamper, verified>>
    /\ UNCHANGED <<startVars, onceVars, geo, rolloutVars, configService, directory, attestService, honeypot>>

HoneypotArgs ==
    {NilResult} \cup
    {Result(valid, tier, "android", "dev-1", "") :
        valid \in BOOLEAN, tier \in {"", STRONG, DEVICE, BASIC, BYPASS, "UNKNOWN"}}

CallShouldUseHoneypot ==
    /\ Idle
    /\ \E arg \in HoneypotArgs :
         honeypot' = [called |-> TRUE, arg |-> arg, value |-> ShouldUseHoneypot(arg)]
    /\ UNCHANGED <<startVars, onceVars, geo, rolloutVars, configService, directory, attestService, packVars, resp,
                   playInit, request, backend, result, verr, audit>>

\* the request ends: what it produced is gone, the initialised client stays
Return ==
    /\ ~Idle
    /\ resp' = NoResp
    /\ honeypot' = NoHoneypot
    /\ request' = NoRequest
    /\ backend' = NoBackend
    /\ result' = NilResult
    /\ verr' = ""
    /\ audit' = NoAudit
    /\ pack' = NoPack
    /\ genErr' = ""
    /\ lastCall' = NoCall
    /\ tamper' = "none"
    /\ verified' = "none"
    /\ UNCHANGED <<startVars, onceVars, geo, rolloutVars, configService, directory, attestService, playInit>>

NextAttest == HandleVerifyAttestation \/ HandleGetConfig \/ CallShouldUseHoneypot \/ Return

SpecAttest == InitAttest /\ [][NextAttest]_vars


BackendReached == request.Platform \in {"android", "ios"} /\ resp.status # 400

\* the backend failed on the token: DecodeIntegrityToken returned an error
\* (Android) or aar.Verify returned one (iOS)
BackendFailure ==
    /\ BackendReached
    /\ \/ request.Platform = "android" /\ backend.err
       \/ request.Platform = "ios" /\ backend.jsonOk /\ ~backend.verifyOk

\* the service evaluated the request and did not trust it
PolicyNegative == resp # NoResp /\ request # NoRequest /\ ~BackendFailure /\ ~result.IsValid

AttestationFailureResponses == {"attestation_verification_failed", "verification_failed"}

C6_Witness_PolicyNegative ==
    /\ resp.op = "VerifyAttestation" /\ resp.status = 401
    /\ request.Platform = "ios" /\ backend = NoBackend
    /\ result.Reason = "missing_dcappattest_config"

EarlierAndroidReasons ==
    {"play_integrity_not_configured", "missing_token_payload", "package_name_mismatch",
     "attestation_expired", "app_not_recognized", "app_not_licensed"}

\* verifyPlayIntegrity got as far as the device-integrity check
DeviceCheckReached ==
    /\ resp # NoResp /\ request.Platform = "android"
    /\ ~backend.err /\ ~backend.payloadNil /\ ~backend.requestDetailsNil
    /\ verr = "" /\ result.Reason \notin EarlierAndroidReasons

ReportedVerdicts ==
    IF backend.DeviceIntegrity.nil THEN << >>
    ELSE backend.DeviceIntegrity.DeviceRecognitionVerdict

TierRank(t) == CASE t = STRONG -> 3 [] t = DEVICE -> 2 [] t = BASIC -> 1 [] OTHER -> 0

PresentTiers ==
    {"UNKNOWN"} \cup
    {ReportedVerdicts[i] : i \in {j \in 1..Len(ReportedVerdicts) :
                                     ReportedVerdicts[j] \in {STRONG, DEVICE, BASIC}}}

HighestTier == CHOOSE t \in PresentTiers : \A u \in PresentTiers : TierRank(u) <= TierRank(t)

\* C9: once the earlier Android checks have passed, the verdict's tier is
\* the highest tier in the backend's list (strong > device > basic > unknown,
\* unknown for an empty or absent list); the verdict is valid exactly when
\* strong is present, or basic is present and allowed by configuration, and
\* otherwise invalid with reason device_integrity_failed.
C9_HighestTier ==
    DeviceCheckReached =>
        /\ result.DeviceIntegrity = HighestTier
        /\ result.IsValid <=>
              \/ STRONG \in PresentTiers
              \/ BASIC \in PresentTiers /\ attestService.playIntegrityAllowBasic
        /\ result.IsValid => result.Reason = ""
        /\ ~result.IsValid => result.Reason = "device_integrity_failed"

C9_Witness_DeviceOverBasic ==
    /\ DeviceCheckReached
    /\ ReportedVerdicts = <<BASIC, DEVICE>>
    /\ result.DeviceIntegrity = DEVICE /\ result.IsValid

\* C10: ShouldUseHoneypot returns true exactly when the verdict is nil, is
\* invalid or has a tier other than strong, and false only for a valid verdict
\* of tier strong.
C10_RequiresDecoy ==
    honeypot.called =>
        /\ honeypot.value <=>
              \/ honeypot.arg.nil
              \/ ~honeypot.arg.IsValid
              \/ honeypot.arg.DeviceIntegrity # STRONG
        /\ ~honeypot.value <=>
              /\ ~honeypot.arg.nil /\ honeypot.arg.IsValid
              /\ honeypot.arg.DeviceIntegrity = STRONG

C10_Witness_ValidBasic ==
    /\ honeypot.called /\ honeypot.value
    /\ ~honeypot.arg.nil /\ honeypot.arg.IsValid /\ honeypot.arg.DeviceIntegrity = BASIC

\* the verdict the handler hands to the pack builder for a verifier result
VerdictOf(res) ==
    IF res.nil THEN NilVerdict ELSE Verdict(res.IsValid, res.DeviceIntegrity)

\* C26: the test of the decoy branch of selectGateways is true for exactly
\* the verdicts for which ShouldUseHoneypot is true
C26_DecoyBranchAgrees ==
    honeypot.called =>
        (honeypotBranchTaken(VerdictOf(honeypot.arg)) <=> honeypot.value)

\* the Android verifier returned a valid verdict above bypass
AndroidAccepted ==
    /\ resp # NoResp /\ request # NoRequest
    /\ request.Platform = "android"
    /\ ~result.nil /\ result.IsValid
    /\ result.DeviceIntegrity # BYPASS

\* C27: a valid Android verdict above bypass means the payload named the
\* configured package, carried a timestamp no older than the maximum age,
\* was recognized and, where licensing is required, licensed
C27_AcceptedPayloadChecked ==
    AndroidAccepted =>
        /\ backend.RequestPackageName = attestService.playIntegrityPackageName
        /\ backend.TimestampMillis.kind = "number"
        /\ \E now \in ClockMs :
              now - backend.TimestampMillis.ms <= attestService.playIntegrityMaxAge
        /\ ~backend.AppIntegrity.nil
        /\ backend.AppIntegrity.AppRecognitionVerdict = "PLAY_RECOGNIZED"
        /\ attestService.playIntegrityRequireLicensed =>
              /\ ~backend.AccountDetails.nil
              /\ backend.AccountDetails.AppLicensingVerdict = "LICENSED"

\* C27 for payloads that carry a package name and a numeric timestamp
C27_CompletePayloadChecked ==
    (backend.RequestPackageName # "" /\ backend.TimestampMillis.kind = "number")
        => C27_AcceptedPayloadChecked


-----------------------------------------------------------------------------
(* Specification of process startup                                        *)

StartEnvs ==
    [GO_ENV : {s_empty, s_production, s_Production, s_development},
     LUMENLINK_ALLOW_ATTESTATION_BYPASS : {s_empty, s_1, s_true, s_True, s_YES, s_false},
     LUMENLINK_ALLOW_EPHEMERAL_SIGNING_KEY : EphemeralEnvs,
     LUMENLINK_CONFIG_SIGNING_PRIVATE_KEY :
        {UnsetKey, EnvKey(FALSE, 0, 0, 0), EnvKey(TRUE, PrivateKeySize, 1, 1)},
     LUMENLINK_CONFIG_SIGNING_PUBLIC_KEY :
        {UnsetKey} \cup {EnvKey(TRUE, PublicKeySize, 0, p) : p \in Seeds},
     DATABASE_URL : BOOLEAN, REDIS_URL : BOOLEAN]

InitStartup ==
    /\ env \in StartEnvs
    /\ pc = "start"
    /\ fatal = ""
    /\ configService = NoService
    /\ directory = BaseDirectory
    /\ attestService = NoAttestationService
    /\ resp = NoResp
    /\ PackIdle
    /\ AttestIdle
    /\ OnceIdle
    /\ GeoIdle
    /\ RolloutIdle

\* log.Fatal: the process exits with the message
Fatal(message) ==
    /\ pc' = "exited"
    /\ fatal' = message
    /\ UNCHANGED <<env, onceVars, geo, rolloutVars, configService, directory, attestService, packVars, attestVars, resp>>

Proceed(next) ==
    /\ pc' = next
    /\ UNCHANGED <<env, onceVars, geo, rolloutVars, fatal, configService, directory, attestService, packVars,
                   attestVars, resp>>

MainAttestationGuard ==
    /\ pc = "start"
    /\ LET err == checkProductionAttestationGuard(env) IN
       IF err # "" THEN Fatal(err) ELSE Proceed("database")

\* DATABASE_URL, db.RunMigrations and db.New
MainDatabase ==
    /\ pc = "database"
    /\ IF ~env.DATABASE_URL
       THEN Fatal("DATABASE_URL environment variable not set")
       ELSE \E migrated, connected \in BOOLEAN :
            IF ~migrated THEN Fatal("Failed to run migrations")
            ELSE IF ~connected THEN Fatal("Failed to initialize database")
            ELSE Proceed("redis")

MainRedis ==
    /\ pc = "redis"
    /\ IF ~env.REDIS_URL
       THEN Fatal("REDIS_URL environment variable not set")
       ELSE Proceed("signing")

MainSigningKeyCheck ==
    /\ pc = "signing"
    /\ LET message == productionSigningKeyCheck(env) IN
       IF message # "" THEN Fatal(message) ELSE Proceed("services")

\* config.NewConfigService and attestation.NewAttestationService
MainInitServices ==
    /\ pc = "services"
    /\ \E ephSeed \in Seeds :
       LET c == NewConfigService(env.LUMENLINK_CONFIG_SIGNING_PRIVATE_KEY,
                                 env.LUMENLINK_CONFIG_SIGNING_PUBLIC_KEY,
                                 env.LUMENLINK_ALLOW_EPHEMERAL_SIGNING_KEY, ephSeed)
       IN
       IF c.err # ""
       THEN Fatal("Failed to initialize config service")
       ELSE /\ configService' = c.svc
            /\ attestService' = NewAttestationService(env)
            /\ pc' = "serving"
            /\ UNCHANGED <<env, onceVars, geo, rolloutVars, fatal, directory, packVars, attestVars, resp>>

\* the running server answers POST /api/v1/attest
Serve ==
    /\ pc = "serving"
    /\ \E req \in {r \in AttestationRequests : r.Token # "" /\ r.Platform # "" /\ r.KeyID = ""},
          now \in ClockMs, newServiceOk \in BOOLEAN :
       LET once == OnceAfter(req, newServiceOk) IN
       \E b \in BackendsFor(attestService, once, req, now) :
       LET va == VerifyAttestation(attestService, once, req, b, now) IN
       /\ playInit' = once
       /\ request' = req
       /\ backend' = b
       /\ result' = va.result
       /\ verr' = va.err
       /\ audit' = IF va.stored THEN <<AuditRecord(req, va.result)>> ELSE << >>
       /\ resp' = HandlerVerifyAttestation(req, va)
    /\ UNCHANGED <<startVars, onceVars, geo, rolloutVars, configService, directory, attestService, packVars, honeypot>>

NextStartup ==
    \/ MainAttestationGuard
    \/ MainDatabase
    \/ MainRedis
    \/ MainSigningKeyCheck
    \/ MainInitServices
    \/ Serve

SpecStartup == InitStartup /\ [][NextStartup]_vars

Production == ToLower(env.GO_ENV) = s_production

\* C7: the startup guard fails whenever GO_ENV is production in any case
\* and the bypass flag holds a value the attestation service treats as
\* enabling bypass, and it succeeds when bypass is enabled outside production;
\* so a production process that serves requests has no AttestationService
\* with allowBypass set and issues no bypass verdict.
C7_ProductionGuard ==
    /\ (pc # "start" /\ Production /\ envAllowsBypass(env)) =>
          pc = "exited" /\ fatal = GuardMessage
    /\ (pc # "start" /\ ~Production /\ envAllowsBypass(env)) => fatal # GuardMessage
    /\ (pc = "serving" /\ Production) =>
          ~attestService.allowBypass /\ result.DeviceIntegrity # BYPASS

C7_Witness_GuardFails ==
    /\ pc = "exited" /\ fatal = GuardMessage
    /\ env.GO_ENV = s_Production /\ env.LUMENLINK_ALLOW_ATTESTATION_BYPASS = s_YES

C7_Witness_BypassOutsideProduction ==
    /\ pc = "serving" /\ ~Production /\ attestService.allowBypass
    /\ result.IsValid /\ result.DeviceIntegrity = BYPASS

\* C8: in production, startup is rejected for every value of the
\* ephemeral-key flag that loadSigningKeys treats as allowing an ephemeral
\* key, whether or not a private signing key is configured.
C8_EphemeralRejected ==
    (Production /\ allowsEphemeralKey(env.LUMENLINK_ALLOW_EPHEMERAL_SIGNING_KEY)) =>
        pc \notin {"services", "serving"}

\* C29: the public key of a service NewConfigService built is the public key
\* of its private key's seed, whether the key was generated, derived or
\* configured; a configured public key of another seed never gets in
C29_PublicKeyPairs ==
    (pc = "serving" /\ configService.ok) =>
        configService.publicKey =
            KeyBytes(PublicKeySize, PubOf(configService.privateKey.seed))

\* C29 when no public key is configured and the private key holds its own
\* public half
C29_DerivedKeyPairs ==
    ( /\ ~env.LUMENLINK_CONFIG_SIGNING_PUBLIC_KEY.set
      /\ env.LUMENLINK_CONFIG_SIGNING_PRIVATE_KEY.pub
            = PubOf(env.LUMENLINK_CONFIG_SIGNING_PRIVATE_KEY.seed) )
    => C29_PublicKeyPairs


\* the service was called with a platform that is neither android nor ios
UnsupportedPlatformCall ==
    /\ resp # NoResp /\ request # NoRequest
    /\ request.Platform \notin {"android", "ios"}

\* C11: for every platform other than android and ios, VerifyAttestation
\* returns an invalid verdict with reason unsupported_platform and a nil
\* error, no verifier runs (the Play Integrity client is not initialised, no
\* backend is consulted), and the attestation handler answers 401.
C11_UnsupportedPlatform ==
    [][ (resp = NoResp /\ UnsupportedPlatformCall') =>
            /\ ~result'.nil /\ ~result'.IsValid
            /\ result'.Reason = "unsupported_platform"
            /\ verr' = ""
            /\ backend' = NoBackend
            /\ playInit' = playInit
            /\ resp'.op = "VerifyAttestation" =>
                  /\ resp'.status = 401 /\ ~resp'.Verified
                  /\ resp'.Reason = "unsupported_platform" ]_vars

C11_Witness_Desktop ==
    /\ UnsupportedPlatformCall
    /\ request.Platform = "desktop" /\ resp.op = "VerifyAttestation" /\ resp.status = 401

\* the iOS verifier was called on the last request
IosVerifierCall == resp # NoResp /\ request # NoRequest /\ request.Platform = "ios"

\* C12: the iOS verifier returns an invalid verdict with reason
\* missing_token_or_keyid whenever the token or the key identifier is empty;
\* a request with a token and no key identifier never yields a valid verdict.
C12_MissingTokenOrKeyID ==
    (IosVerifierCall /\ (request.Token = "" \/ request.KeyID = "")) =>
        /\ ~result.IsValid
        /\ result.Reason = "missing_token_or_keyid"
        /\ verr = ""

\* C13: every call of VerifyAttestation, whatever its outcome, attempts to
\* write one audit record with the device id, platform, raw token, validity
\* and tier of the verdict.
C13_AuditEveryCall ==
    (resp # NoResp /\ request # NoRequest) =>
        audit = <<AuditRecord(request, result)>>


-----------------------------------------------------------------------------
(* Specification of concurrent first use of the Play Integrity client:     *)
(* sync.Once.Do as the Go runtime runs it, one step per memory access      *)

Callers == 1..NumCallers

NewCaller == [pc |-> "call", path |-> "", err |-> "", client |-> FALSE]

\* the function passed to Once.Do: it writes the error or the client
playIntegrityInitBody(svc, once, newServiceOk) ==
    IF svc.playIntegrityPackageName = ""
    THEN [once EXCEPT !.err = "missing package name"]
    ELSE IF ~newServiceOk
         THEN [once EXCEPT !.err = "new service failed"]
         ELSE [once EXCEPT !.client = TRUE]

\* doSlow with the test of done under the mutex left out
doSlowRunsBody_noRecheck(done) == TRUE

\* doSlow: under the mutex the function runs only if done is still unset
doSlowRunsBody(done) == ~done

InitOnce ==
    /\ StartIdle
    /\ configService = BaseService
    /\ directory = BaseDirectory
    /\ attestService \in
          {NoAttestationService,
           [NoAttestationService EXCEPT !.playIntegrityPackageName = ConfiguredPackage]}
    /\ resp = NoResp
    /\ PackIdle
    /\ AttestIdle
    /\ callers = [t \in Callers |-> NewCaller]
    /\ initMu = 0
    /\ bodyRuns = 0
    /\ GeoIdle
    /\ RolloutIdle

OnceUnchanged ==
    UNCHANGED <<startVars, configService, directory, attestService, packVars, resp,
                request, backend, result, verr, honeypot, audit, geo, rolloutVars>>

\* Once.Do: the atomic load of done
OnceFastPath(t) ==
    /\ callers[t].pc = "call"
    /\ callers' = IF playInit.done
                  THEN [callers EXCEPT ![t].pc = "return", ![t].path = "fast"]
                  ELSE [callers EXCEPT ![t].pc = "lock"]
    /\ UNCHANGED <<playInit, initMu, bodyRuns>>
    /\ OnceUnchanged

\* doSlow: o.m.Lock()
OnceLock(t) ==
    /\ callers[t].pc = "lock"
    /\ initMu = 0
    /\ initMu' = t
    /\ callers' = [callers EXCEPT ![t].pc = "locked"]
    /\ UNCHANGED <<playInit, bodyRuns>>
    /\ OnceUnchanged

\* doSlow: the second test of done
OnceDoSlow(t) ==
    /\ callers[t].pc = "locked"
    /\ callers' = IF doSlowRunsBody(playInit.done)
                  THEN [callers EXCEPT ![t].pc = "body"]
                  ELSE [callers EXCEPT ![t].pc = "unlock", ![t].path = "waited"]
    /\ UNCHANGED <<playInit, initMu, bodyRuns>>
    /\ OnceUnchanged

\* the function passed to Do runs
OnceBody(t) ==
    /\ callers[t].pc = "body"
    /\ \E newServiceOk \in BOOLEAN :
         playInit' = playIntegrityInitBody(attestService, playInit, newServiceOk)
    /\ bodyRuns' = bodyRuns + 1
    /\ callers' = [callers EXCEPT ![t].pc = "store", ![t].path = "ran"]
    /\ UNCHANGED initMu
    /\ OnceUnchanged

\* doSlow: the deferred o.done.Store(1)
OnceStore(t) ==
    /\ callers[t].pc = "store"
    /\ playInit' = [playInit EXCEPT !.done = TRUE]
    /\ callers' = [callers EXCEPT ![t].pc = "unlock"]
    /\ UNCHANGED <<initMu, bodyRuns>>
    /\ OnceUnchanged

\* doSlow: the deferred o.m.Unlock()
OnceUnlock(t) ==
    /\ callers[t].pc = "unlock"
    /\ initMu' = 0
    /\ callers' = [callers EXCEPT ![t].pc = "return"]
    /\ UNCHANGED <<playInit, bodyRuns>>
    /\ OnceUnchanged

\* initPlayIntegrityClient returns s.playIntegrityInitErr
InitClientReturn(t) ==
    /\ callers[t].pc = "return"
    /\ callers' = [callers EXCEPT ![t].pc = "use", ![t].err = playInit.err]
    /\ UNCHANGED <<playInit, initMu, bodyRuns>>
    /\ OnceUnchanged

\* verifyPlayIntegrity goes on: it reads s.playIntegrityClient
UseClient(t) ==
    /\ callers[t].pc = "use"
    /\ callers' = [callers EXCEPT ![t].pc = "done", ![t].client = playInit.client]
    /\ UNCHANGED <<playInit, initMu, bodyRuns>>
    /\ OnceUnchanged

NextOnce ==
    \E t \in Callers :
        \/ OnceFastPath(t)
        \/ OnceLock(t)
        \/ OnceDoSlow(t)
        \/ OnceBody(t)
        \/ OnceStore(t)
        \/ OnceUnlock(t)
        \/ InitClientReturn(t)
        \/ UseClient(t)

SpecOnce == InitOnce /\ [][NextOnce]_vars

\* C14: under every interleaving of concurrent first calls the
\* initialisation body runs at most once, a caller is past
\* initPlayIntegrityClient only after the body has run and done is set, and
\* all callers observe the same initialisation error and the same client.
C14_InitExactlyOnce ==
    /\ bodyRuns <= 1
    /\ \A t \in DOMAIN callers :
          /\ callers[t].pc \in {"use", "done"} =>
                /\ bodyRuns = 1 /\ playInit.done
                /\ callers[t].err = playInit.err
          /\ callers[t].pc = "done" => callers[t].client = playInit.client
    /\ \A t, u \in DOMAIN callers :
          (callers[t].pc = "done" /\ callers[u].pc = "done") =>
              /\ callers[t].err = callers[u].err
              /\ callers[t].client = callers[u].client

C14_Witness_WaitedForInit ==
    /\ bodyRuns = 1
    /\ \A t \in DOMAIN callers : callers[t].pc = "done"
    /\ \E t, u \in DOMAIN callers :
          /\ callers[t].path = "ran" /\ callers[u].path = "waited"
          /\ callers[t].client /\ callers[u].client


-----------------------------------------------------------------------------
(* internal/geo: the balancer                                              *)

\* calculateGatewayLoad with the zero capacity left to the division
calculateGatewayLoad_zeroDivides(gw) ==
    IF gw.MaxUsers = NilInt
    THEN Half
    ELSE Frac(gw.CurrentUsers, gw.MaxUsers)

calculateGatewayLoad(gw) ==
    IF gw.MaxUsers = NilInt \/ gw.MaxUsers = 0
    THEN Half
    ELSE Frac(gw.CurrentUsers, gw.MaxUsers)

\* the inner loop of GetLoadBalancedGateways at positions i and j..n: both
\* Load fields are refreshed, then the two are exchanged if out of order
RECURSIVE exchangeInner(_, _, _)
exchangeInner(sorted, i, j) ==
    IF j > Len(sorted) THEN sorted
    ELSE LET loaded == [sorted EXCEPT ![i].Load = calculateGatewayLoad(sorted[i]),
                                      ![j].Load = calculateGatewayLoad(sorted[j])]
             next   == IF FracLess(loaded[j].Load, loaded[i].Load)
                       THEN [loaded EXCEPT ![i] = loaded[j], ![j] = loaded[i]]
                       ELSE loaded
         IN  exchangeInner(next, i, j + 1)

RECURSIVE exchangeOuter(_, _)
exchangeOuter(sorted, i) ==
    IF i > Len(sorted) - 1 THEN sorted
    ELSE exchangeOuter(exchangeInner(sorted, i, i + 1), i + 1)

\* GetLoadBalancedGateways without the truncation to count
GetLoadBalancedGateways_noTruncation(lookup, count) ==
    IF lookup.err # "" THEN [err |-> lookup.err, gateways |-> << >>]
    ELSE IF Len(lookup.rows) = 0 THEN [err |-> "", gateways |-> << >>]
    ELSE [err |-> "", gateways |-> exchangeOuter(lookup.rows, 1)]

\* GetLoadBalancedGateways, given the outcome of its GetGatewaysByRegion call;
\* sorted[:count] with a negative count panics
GetLoadBalancedGateways(lookup, count) ==
    IF lookup.err # "" THEN [err |-> lookup.err, gateways |-> << >>]
    ELSE IF Len(lookup.rows) = 0 THEN [err |-> "", gateways |-> << >>]
    ELSE LET sorted == exchangeOuter(lookup.rows, 1)
             n      == IF count > Len(sorted) THEN Len(sorted) ELSE count
         IN  IF n < 0
             THEN [err |-> "panic: slice bounds out of range", gateways |-> << >>]
             ELSE [err |-> "", gateways |-> SubSeq(sorted, 1, n)]

OverloadThreshold == [num |-> 9, den |-> 10]

\* isRegionAvailable, given the outcome of its GetGatewaysByRegion call; it
\* reads the Load field of the rows as the lookup left it
isRegionAvailable(lookup) ==
    IF lookup.err # "" THEN [available |-> FALSE, err |-> lookup.err]
    ELSE [available |-> \E i \in 1..Len(lookup.rows) :
                           /\ lookup.rows[i].Status = "active"
                           /\ FracLess(lookup.rows[i].Load, OverloadThreshold),
          err |-> ""]

DefaultCandidates == <<"us-east-1", "us-west-1", "eu-west-1", "ap-southeast-1">>

regionPreference(clientRegion) ==
    CASE clientRegion = "us-east-1" -> <<"us-east-1", "us-west-1", "eu-west-1", "ap-southeast-1">>
      [] clientRegion = "us-west-1" -> <<"us-west-1", "us-east-1", "ap-southeast-1", "eu-west-1">>
      [] clientRegion = "eu-west-1" -> <<"eu-west-1", "eu-central-1", "us-east-1", "ap-southeast-1">>
      [] clientRegion = "eu-central-1" -> <<"eu-central-1", "eu-west-1", "us-east-1", "ap-southeast-1">>
      [] clientRegion = "ap-southeast-1" -> <<"ap-southeast-1", "ap-east-1", "us-west-1", "eu-west-1">>
      [] clientRegion = "ap-east-1" -> <<"ap-east-1", "ap-southeast-1", "us-west-1", "eu-west-1">>
      [] clientRegion = "me-south-1" -> <<"me-south-1", "eu-central-1", "eu-west-1", "ap-southeast-1">>
      [] OTHER -> DefaultCandidates

\* the region a range loop over regions returns first: the first one whose
\* availability check returns no error and true; "" if the loop ends.
\* lookupOf gives the outcome of the lookup of each region.
RECURSIVE firstAvailable(_, _)
firstAvailable(regions, lookupOf) ==
    IF regions = << >> THEN ""
    ELSE LET a == isRegionAvailable(lookupOf[Head(regions)]) IN
         IF a.err = "" /\ a.available THEN Head(regions)
         ELSE firstAvailable(Tail(regions), lookupOf)

findNearestRegion(clientRegion, lookupOf) ==
    LET found == firstAvailable(regionPreference(clientRegion), lookupOf) IN
    IF found # "" THEN [region |-> found, err |-> ""]
    ELSE [region |-> "us-east-1", err |-> ""]

\* SelectRegion that returns the client's region without asking whether it
\* is available
SelectRegion_clientRegionUnchecked(clientRegion, preferredRegions, lookupOf) ==
    IF clientRegion # "" THEN [region |-> clientRegion, err |-> ""]
    ELSE findNearestRegion(clientRegion, lookupOf)

SelectRegion(clientRegion, preferredRegions, lookupOf) ==
    LET own == IF clientRegion # ""
               THEN firstAvailable(<<clientRegion>>, lookupOf) ELSE ""
        preferred == firstAvailable(preferredRegions, lookupOf)
        nearest == findNearestRegion(clientRegion, lookupOf)
    IN  IF own # "" THEN [region |-> own, err |-> ""]
        ELSE IF preferred # "" THEN [region |-> preferred, err |-> ""]
        ELSE IF nearest.err = "" THEN [region |-> nearest.region, err |-> ""]
        ELSE [region |-> "us-east-1", err |-> ""]

\* the regions SelectRegion looks up, in order, up to the one it returns
RECURSIVE upToFirstAvailable(_, _)
upToFirstAvailable(regions, lookupOf) ==
    IF regions = << >> THEN << >>
    ELSE LET a == isRegionAvailable(lookupOf[Head(regions)]) IN
         IF a.err = "" /\ a.available THEN <<Head(regions)>>
         ELSE <<Head(regions)>> \o upToFirstAvailable(Tail(regions), lookupOf)

lookedUp(clientRegion, preferredRegions, lookupOf) ==
    upToFirstAvailable((IF clientRegion # "" THEN <<clientRegion>> ELSE << >>)
                          \o preferredRegions \o regionPreference(clientRegion),
                       lookupOf)


\* Database.RecordGatewayStatus; txOk is whether every statement and the
\* commit succeed.  A failed statement rolls the transaction back.
RecordGatewayStatus(dir, gatewayID, status, usersConnected, txOk) ==
    IF ~txOk \/ status \notin Statuses \/ usersConnected < 0
    THEN [err |-> "failed to update gateway status", dir |-> dir]
    ELSE IF gatewayID \notin DOMAIN dir
    THEN [err |-> "gateway not found", dir |-> dir]
    ELSE [err |-> "",
          dir |-> [dir EXCEPT ![gatewayID].Status = status,
                              ![gatewayID].CurrentUsers = usersConnected]]

\* Handler.HandleGatewayStatus, given the body and what RecordGatewayStatus returns
HandleGatewayStatus(req, rec) ==
    IF req.GatewayID = "" \/ req.Status = ""
    THEN ErrorResp("HandleGatewayStatus", 400, "binding")
    ELSE IF req.Status \notin Statuses
    THEN ErrorResp("HandleGatewayStatus", 400, "invalid_status")
    ELSE IF req.UsersConnected < 0
    THEN ErrorResp("HandleGatewayStatus", 400, "invalid_metrics")
    ELSE IF rec.err = "gateway not found"
    THEN ErrorResp("HandleGatewayStatus", 404, "gateway_not_found")
    ELSE IF rec.err # ""
    THEN ErrorResp("HandleGatewayStatus", 500, "gateway_status_store_failed")
    ELSE [NoResp EXCEPT !.op = "HandleGatewayStatus", !.status = 200]

\* ROUND(load * max_users)::int for load = num/den: the nearest integer; a
\* value half way between two integers goes to either
RoundChoices(num, den) ==
    LET lower == num \div den
        rest  == num - lower * den
    IN  IF 2 * rest < den THEN {lower}
        ELSE IF 2 * rest > den THEN {lower + 1}
        ELSE {lower, lower + 1}

\* the values UpdateGatewayLoad can store in current_users of a row
UpdatedUsers(gw, load) ==
    LET clamped == IF load.num < 0 THEN [num |-> 0, den |-> 1]
                   ELSE IF load.num > load.den THEN [num |-> 1, den |-> 1]
                   ELSE load
    IN  IF gw.MaxUsers = NilInt THEN {gw.CurrentUsers}
        ELSE {IF r < 0 THEN 0 ELSE IF r > gw.MaxUsers THEN gw.MaxUsers ELSE r :
                 r \in RoundChoices(clamped.num * gw.MaxUsers, clamped.den)}

\* UpdateGatewayLoad: the directories the UPDATE can leave, with the error
UpdateGatewayLoad(dir, gatewayID, load, execOk) ==
    IF ~execOk THEN {[err |-> "exec failed", dir |-> dir]}
    ELSE IF gatewayID \notin DOMAIN dir THEN {[err |-> "", dir |-> dir]}
    ELSE {[err |-> "", dir |-> [dir EXCEPT ![gatewayID].CurrentUsers = u]] :
             u \in UpdatedUsers(dir[gatewayID], load)}

-----------------------------------------------------------------------------
(* Specification of the balancer over a directory that operators update    *)

GeoDirectory ==
    [id \in GatewayIds |->
       CASE id = "gw-a"  -> Gateway(id, 11, "10.0.0.1", "us-east-1", 0, MaxCapacity, "active", FALSE)
         [] id = "gw-b"  -> Gateway(id, 12, "10.0.0.2", "eu-west-1", 0, NilInt, "active", FALSE)
         [] id = "gw-hp" -> Gateway(id, 13, "10.0.0.9", "us-east-1", 0, MaxCapacity, "active", TRUE)]

ClientRegions == {"", "us-east-1", "eu-west-1", "mars-1"}
PreferredLists == {<< >>, <<"eu-west-1">>, <<"ap-east-1", "us-east-1">>}

\* every region name a SelectRegion call of the model can look up
RegionNames ==
    UNION {{r[i] : i \in 1..Len(r)} :
              r \in PreferredLists \cup {regionPreference(c) : c \in ClientRegions}}
    \cup (ClientRegions \ {""})

\* the sets of regions whose lookups fail during one call
FailingSets == SUBSET Regions \cup {RegionNames}

\* the outcome of every lookup of one call: a region in failing returns an
\* error each time it is looked up.  The order of the rows does not matter
\* to the caller, isRegionAvailable.
LookupsOf(dir, failing) ==
    [r \in RegionNames |->
        IF r \in failing THEN LookupFailed
        ELSE LookupOk(CHOOSE rows \in GetGatewaysByRegion(dir, r) : TRUE)]

StatusReports ==
    [GatewayID : {"gw-a", "gw-b", "gw-none"}, Status : {"active", "offline", "bogus"},
     UsersConnected : -1..MaxReported]

LoadInputs ==
    {[num |-> -1, den |-> 2], [num |-> 0, den |-> 1], [num |-> 1, den |-> 4],
     [num |-> 1, den |-> 2], [num |-> 1, den |-> 1], [num |-> 3, den |-> 2]}

GeoReady == resp = NoResp /\ geo = NoGeo

GeoUnchanged ==
    UNCHANGED <<startVars, onceVars, rolloutVars, configService, attestService, packVars, attestVars>>

InitGeo ==
    /\ StartIdle
    /\ configService = BaseService
    /\ directory = GeoDirectory
    /\ attestService = NoAttestationService
    /\ resp = NoResp
    /\ PackIdle
    /\ AttestIdle
    /\ OnceIdle
    /\ GeoIdle
    /\ RolloutIdle

CallSelectRegion ==
    /\ GeoReady
    /\ \E clientRegion \in ClientRegions, preferredRegions \in PreferredLists,
          failing \in FailingSets :
       LET lookupOf == LookupsOf(directory, failing)
           r        == SelectRegion(clientRegion, preferredRegions, lookupOf)
           asked    == lookedUp(clientRegion, preferredRegions, lookupOf)
       IN  geo' = [NoGeo EXCEPT !.op = "SelectRegion",
                                !.clientRegion = clientRegion,
                                !.preferredRegions = preferredRegions,
                                !.lookupFailed = \E i \in 1..Len(asked) : asked[i] \in failing,
                                !.region = r.region,
                                !.err = r.err]
    /\ UNCHANGED <<directory, resp>>
    /\ GeoUnchanged

CallGetLoadBalancedGateways ==
    /\ GeoReady
    /\ \E region \in Regions, count \in -1..MaxCount :
       \E lookup \in Lookups(directory, region) :
       LET r == GetLoadBalancedGateways(lookup, count) IN
       geo' = [NoGeo EXCEPT !.op = "GetLoadBalancedGateways",
                            !.region = region,
                            !.count = count,
                            !.rows = lookup.rows,
                            !.lookupFailed = lookup.err # "",
                            !.err = r.err,
                            !.gateways = r.gateways]
    /\ UNCHANGED <<directory, resp>>
    /\ GeoUnchanged

CallUpdateGatewayLoad ==
    /\ GeoReady
    /\ \E gatewayID \in {"gw-a", "gw-b", "gw-none"}, load \in LoadInputs, execOk \in BOOLEAN :
       \E r \in UpdateGatewayLoad(directory, gatewayID, load, execOk) :
       /\ directory' = r.dir
       /\ geo' = [NoGeo EXCEPT !.op = "UpdateGatewayLoad", !.err = r.err, !.load = load]
    /\ UNCHANGED resp
    /\ GeoUnchanged

\* POST /api/v1/gateway/status
PostGatewayStatus ==
    /\ GeoReady
    /\ \E req \in StatusReports, txOk \in BOOLEAN :
       LET rec == RecordGatewayStatus(directory, req.GatewayID, req.Status,
                                      req.UsersConnected, txOk)
           out == HandleGatewayStatus(req, rec)
       IN  /\ resp' = out
           /\ directory' = IF out.error \in {"binding", "invalid_status", "invalid_metrics"}
                           THEN directory ELSE rec.dir
    /\ UNCHANGED geo
    /\ GeoUnchanged

\* the call or the request ends
GeoReturn ==
    /\ ~GeoReady
    /\ resp' = NoResp
    /\ geo' = NoGeo
    /\ UNCHANGED directory
    /\ GeoUnchanged

NextGeo ==
    \/ CallSelectRegion
    \/ CallGetLoadBalancedGateways
    \/ CallUpdateGatewayLoad
    \/ PostGatewayStatus
    \/ GeoReturn

SpecGeo == InitGeo /\ [][NextGeo]_vars


\* the directory has an active gateway that is not a decoy in region r
HasActiveGateway(r) ==
    \E id \in DOMAIN directory :
        /\ directory[id].Region = r
        /\ directory[id].Status = "active"
        /\ ~directory[id].IsHoneypot

C15_Witness_LookupFailed ==
    /\ geo.op = "SelectRegion" /\ geo.lookupFailed
    /\ geo.clientRegion = "eu-west-1" /\ geo.region = "us-east-1"

\* C16: when a directory lookup fails during SelectRegion or
\* GetLoadBalancedGateways, the call returns an error to its caller.
C16_LookupErrorPropagates ==
    (geo.op \in {"SelectRegion", "GetLoadBalancedGateways"} /\ geo.lookupFailed) =>
        geo.err # ""

InUnitInterval(load) == 0 <= load.num /\ load.num <= load.den

\* C19: in every directory state reachable through status reports and load
\* updates, every load computed for an endpoint (calculateLoad,
\* calculateGatewayLoad, the Load written by GetLoadBalancedGateways) lies in
\* [0,1].
C19_LoadInUnitInterval ==
    /\ \A id \in DOMAIN directory :
          /\ InUnitInterval(calculateLoad(directory[id]))
          /\ InUnitInterval(calculateGatewayLoad(directory[id]))
    /\ \A i \in 1..Len(geo.gateways) : InUnitInterval(geo.gateways[i].Load)

\* region r has an active gateway, not a decoy, whose load is below 0.9
HasGatewayBelowThreshold(r) ==
    \E id \in DOMAIN directory :
        /\ directory[id].Region = r
        /\ directory[id].Status = "active"
        /\ ~directory[id].IsHoneypot
        /\ FracLess(calculateGatewayLoad(directory[id]), OverloadThreshold)

RECURSIVE FirstBelowThreshold(_)
FirstBelowThreshold(regions) ==
    IF regions = << >> THEN "us-east-1"
    ELSE IF HasGatewayBelowThreshold(Head(regions)) THEN Head(regions)
    ELSE FirstBelowThreshold(Tail(regions))

\* C28: with every lookup answered, SelectRegion returns the first region
\* that has an active gateway below 0.9 load among the explicit region, the
\* preferred regions in order and the regions adjacent to the client's, and
\* us-east-1 when there is none; an explicit region whose gateways are all
\* at 0.9 or above is passed over
C28_OverloadedRegionPassedOver ==
    (geo.op = "SelectRegion" /\ ~geo.lookupFailed) =>
        geo.region =
            FirstBelowThreshold(
                (IF geo.clientRegion # "" THEN <<geo.clientRegion>> ELSE << >>)
                \o geo.preferredRegions \o regionPreference(geo.clientRegion))

\* C28 while no active gateway is at 0.9 load or above
C28_WithoutOverload ==
    (\A id \in DOMAIN directory :
        (directory[id].Status = "active" /\ ~directory[id].IsHoneypot)
           => FracLess(calculateGatewayLoad(directory[id]), OverloadThreshold))
    => C28_OverloadedRegionPassedOver


-----------------------------------------------------------------------------
(* Selection and load as functions of the rows a lookup returned: the      *)
(* balancer's GetLoadBalancedGateways, the pack builder's selectGateways   *)
(* and the two load calculations, each applied to inputs drawn from the    *)
(* sets below.                                                              *)

\* one row more than the pack builder keeps, so that its truncation happens
SelectIds == <<"gw-1", "gw-2", "gw-3", "gw-4", "gw-5", "gw-6">>
NumRows == maxGateways + 1

\* max_users of a stored row: NULL, or positive by the table's CHECK
RowCapacities == {NilInt, MaxCapacity}

\* current_users of a stored row
RowUsers == 0..MaxCapacity

SelectRow(i, cur, max) ==
    Gateway(SelectIds[i], 20 + i, "10.0.1.1", "us-east-1", cur, max, "active", FALSE)

\* the rows of one region in the order the query returned them: ids by
\* position, current_users ascending as ORDER BY leaves them
RECURSIVE RowListsOfLen(_)
RowListsOfLen(n) ==
    IF n = 0 THEN {<< >>}
    ELSE UNION { { Append(rows, SelectRow(n, cur, max))
                   : cur \in {c \in RowUsers :
                                n = 1 \/ rows[n - 1].CurrentUsers <= c},
                     max \in RowCapacities }
                 : rows \in RowListsOfLen(n - 1) }

RowLists == UNION {RowListsOfLen(n) : n \in 0..NumRows}

\* the arguments of a load calculation: any count, and a capacity that is
\* nil, zero or positive
LoadArguments ==
    { Gateway("gw-1", 21, "10.0.1.1", "us-east-1", cur, max, "active", FALSE)
      : cur \in 0..MaxReported, max \in {NilInt} \cup 0..MaxCapacity }

SelectOps == {"GetLoadBalancedGateways", "selectGateways"}
LoadOps   == {"calculateLoad", "calculateGatewayLoad"}

SelectUnchanged ==
    UNCHANGED <<startVars, onceVars, rolloutVars, configService, directory, attestService,
                resp, packVars, attestVars>>

InitSelect ==
    /\ StartIdle
    /\ configService = BaseService
    /\ directory = BaseDirectory
    /\ attestService = NoAttestationService
    /\ resp = NoResp
    /\ PackIdle
    /\ AttestIdle
    /\ OnceIdle
    /\ GeoIdle
    /\ RolloutIdle

ApplyGetLoadBalancedGateways ==
    /\ geo = NoGeo
    /\ \E rows \in RowLists, count \in 0..MaxCount :
       \E lookup \in {LookupFailed, LookupOk(rows)} :
       LET r == GetLoadBalancedGateways(lookup, count) IN
       geo' = [NoGeo EXCEPT !.op = "GetLoadBalancedGateways",
                            !.region = "us-east-1",
                            !.count = count,
                            !.rows = lookup.rows,
                            !.lookupFailed = lookup.err # "",
                            !.err = r.err,
                            !.gateways = r.gateways]
    /\ SelectUnchanged

ApplySelectGateways ==
    /\ geo = NoGeo
    /\ \E rows \in RowLists, verdict \in {NilVerdict, Verdict(TRUE, "MEETS_DEVICE_INTEGRITY")} :
       \E lookup \in {LookupFailed, LookupOk(rows)} :
       LET r == selectGateways(lookup, verdict) IN
       geo' = [NoGeo EXCEPT !.op = "selectGateways",
                            !.region = "us-east-1",
                            !.count = maxGateways,
                            !.rows = lookup.rows,
                            !.lookupFailed = lookup.err # "",
                            !.err = r.err,
                            !.gateways = r.gateways]
    /\ SelectUnchanged

ApplyCalculateLoad ==
    /\ geo = NoGeo
    /\ \E gw \in LoadArguments :
       geo' = [NoGeo EXCEPT !.op = "calculateLoad",
                            !.rows = <<gw>>,
                            !.load = calculateLoad(gw)]
    /\ SelectUnchanged

ApplyCalculateGatewayLoad ==
    /\ geo = NoGeo
    /\ \E gw \in LoadArguments :
       geo' = [NoGeo EXCEPT !.op = "calculateGatewayLoad",
                            !.rows = <<gw>>,
                            !.load = calculateGatewayLoad(gw)]
    /\ SelectUnchanged

SelectReturn ==
    /\ geo # NoGeo
    /\ geo' = NoGeo
    /\ SelectUnchanged

NextSelect ==
    \/ ApplyGetLoadBalancedGateways
    \/ ApplySelectGateways
    \/ ApplyCalculateLoad
    \/ ApplyCalculateGatewayLoad
    \/ SelectReturn

SpecSelect == InitSelect /\ [][NextSelect]_vars


\* a selection that went through: the lookup gave rows and no error came back
Selected == geo.op \in SelectOps /\ ~geo.lookupFailed /\ geo.err = ""

\* the position in the lookup's rows of the endpoint with this id, 0 if none
RowOf(id) ==
    IF \E i \in 1..Len(geo.rows) : geo.rows[i].ID = id
    THEN CHOOSE i \in 1..Len(geo.rows) : geo.rows[i].ID = id
    ELSE 0

\* the load of the row at position p, current_users over max_users
RowLoad(p) == calculateGatewayLoad(geo.rows[p])

\* the positions of the rows that were returned
Returned == {RowOf(geo.gateways[i].ID) : i \in 1..Len(geo.gateways)}

MinOf(a, b) == IF a < b THEN a ELSE b

C17_Witness_PackTruncates ==
    /\ Selected
    /\ geo.op = "selectGateways"
    /\ Len(geo.rows) = NumRows
    /\ 1 \notin Returned

SameLoad(p, q) == ~FracLess(RowLoad(p), RowLoad(q)) /\ ~FracLess(RowLoad(q), RowLoad(p))

\* C18: returned endpoints of equal load stand in the order the lookup gave
\* them, and a row left out never stood before a returned row of equal load
C18_TiesKeepInputOrder ==
    Selected =>
        /\ \A i \in 1..Len(geo.gateways), j \in 1..Len(geo.gateways) :
              (i < j /\ SameLoad(RowOf(geo.gateways[i].ID), RowOf(geo.gateways[j].ID)))
                 => RowOf(geo.gateways[i].ID) < RowOf(geo.gateways[j].ID)
        /\ \A p \in (1..Len(geo.rows)) \ Returned, q \in Returned :
              SameLoad(p, q) => q < p

\* C18 for the pack builder alone
C18_PackTiesKeepInputOrder ==
    geo.op = "selectGateways" => C18_TiesKeepInputOrder

\* C20: a load calculation returns one half when the capacity is nil or
\* zero, whatever the count, and the count divided by the capacity otherwise
C20_LoadDefault ==
    geo.op \in LoadOps =>
        LET gw == geo.rows[1] IN
        IF gw.MaxUsers = NilInt \/ gw.MaxUsers = 0
        THEN geo.load = Half
        ELSE /\ geo.load.den > 0
             /\ geo.load.num * gw.MaxUsers = gw.CurrentUsers * geo.load.den

\* the balancer's calculation met a zero capacity with users connected
C20_Witness_ZeroCapacity ==
    /\ geo.op = "calculateGatewayLoad"
    /\ geo.rows[1].MaxUsers = 0
    /\ geo.rows[1].CurrentUsers > 0
    /\ geo.load = Half

\* the pack builder's calculation met a nil capacity with users connected
C20_Witness_NilCapacity ==
    /\ geo.op = "calculateLoad"
    /\ geo.rows[1].MaxUsers = NilInt
    /\ geo.rows[1].CurrentUsers > 0
    /\ geo.load = Half


-----------------------------------------------------------------------------
(* internal/geo: staged rollout                                            *)

\* the printable ASCII characters in code order, from the space (32) on; the
\* grave accent (96) is held by a name
Ascii == <<
    " ", "!", "\"", "#", "$", "%", "&", "'", "(", ")", "*", "+", ",", "-", ".", "/",
    "0", "1", "2", "3", "4", "5", "6", "7", "8", "9", ":", ";", "<", "=", ">", "?",
    "@", "A", "B", "C", "D", "E", "F", "G", "H", "I", "J", "K", "L", "M", "N", "O",
    "P", "Q", "R", "S", "T", "U", "V", "W", "X", "Y", "Z", "[", "\\", "]", "^", "_",
    "grave", "a", "b", "c", "d", "e", "f", "g", "h", "i", "j", "k", "l", "m", "n", "o",
    "p", "q", "r", "s", "t", "u", "v", "w", "x", "y", "z", "{", "|", "}", "~" >>

\* the rune a range loop yields for a character
RuneOf(c) == 31 + (CHOOSE i \in 1..Len(Ascii) : Ascii[i] = c)

\* An int of the build is a sequence of 16-bit limbs, lowest first, read as
\* two's complement: 2 limbs on a 32-bit build, 4 on a 64-bit one.
LimbBase == 65536
IntSizes == {32, 64}
ZeroInt(bits) == [i \in 1..(bits \div 16) |-> 0]

\* word*31 + carry from limb i on, the overflow past the top limb dropped
RECURSIVE mulAddFrom(_, _, _)
mulAddFrom(word, i, carry) ==
    IF i > Len(word) THEN word
    ELSE LET t == word[i] * 31 + carry IN
         mulAddFrom([word EXCEPT ![i] = t % LimbBase], i + 1, t \div LimbBase)

IsNegative(word) == word[Len(word)] >= LimbBase \div 2

\* -word: the complement plus one; the smallest int is its own negation
RECURSIVE negateFrom(_, _, _)
negateFrom(word, i, carry) ==
    IF i > Len(word) THEN word
    ELSE LET t == (LimbBase - 1 - word[i]) + carry IN
         negateFrom([word EXCEPT ![i] = t % LimbBase], i + 1, t \div LimbBase)

Negate(word) == negateFrom(word, 1, 1)

\* the limbs read as an unsigned number, modulo 100
RECURSIVE unsignedMod100(_, _, _)
unsignedMod100(word, i, weight) ==
    IF i > Len(word) THEN 0
    ELSE (word[i] * weight + unsignedMod100(word, i + 1, (weight * LimbBase) % 100)) % 100

\* word % 100 as Go computes it: the remainder has the sign of the dividend
IntRem100(word) ==
    IF IsNegative(word)
    THEN 0 - unsignedMod100(Negate(word), 1, 1)
    ELSE unsignedMod100(word, 1, 1)

\* x % 100 for a small int
Rem100(x) == IF x < 0 THEN 0 - ((0 - x) % 100) ELSE x % 100

RECURSIVE hashLoop(_, _, _)
hashLoop(s, i, hash) ==
    IF i > Len(s) THEN hash
    ELSE hashLoop(s, i + 1, mulAddFrom(hash, 1, RuneOf(s[i])))

\* hashString on a build whose int has the given number of bits
hashString(s, bits) ==
    LET hash == hashLoop(s, 1, ZeroInt(bits))
        abs  == IF IsNegative(hash) THEN Negate(hash) ELSE hash
    IN  IntRem100(abs)

\* clampPercentage without the upper limit
clampPercentage_noUpperLimit(percent) ==
    IF percent < 0 THEN 0 ELSE percent

clampPercentage(percent) ==
    IF percent < 0 THEN 0
    ELSE IF percent > 100 THEN 100
    ELSE percent

toUpperRune(c) ==
    IF \E i \in 1..26 : LowerCase[i] = c
    THEN UpperCase[CHOOSE i \in 1..26 : LowerCase[i] = c]
    ELSE c

ToUpper(s) == [i \in 1..Len(s) |-> toUpperRune(s[i])]

Digits == <<"0","1","2","3","4","5","6","7","8","9">>
IsDigit(c)  == \E i \in 1..10 : Digits[i] = c
IsLetter(c) == \E i \in 1..26 : UpperCase[i] = c \/ LowerCase[i] = c
DigitValue(c) == (CHOOSE i \in 1..10 : Digits[i] = c) - 1

\* strings.Trim(s, cutset) and strings.TrimSpace
RECURSIVE TrimLeft(_, _)
TrimLeft(s, cutset) ==
    IF s # << >> /\ Head(s) \in cutset THEN TrimLeft(Tail(s), cutset) ELSE s

RECURSIVE TrimRight(_, _)
TrimRight(s, cutset) ==
    IF s # << >> /\ s[Len(s)] \in cutset
    THEN TrimRight(SubSeq(s, 1, Len(s) - 1), cutset)
    ELSE s

Trim(s, cutset) == TrimRight(TrimLeft(s, cutset), cutset)
TrimSpace(s) == Trim(s, {" ", "\t", "\n", "\r"})

normalizeRolloutKey(value) ==
    IF value = << >> THEN << >>
    ELSE LET upper      == ToUpper(value)
             normalized == [i \in 1..Len(upper) |->
                               IF IsLetter(upper[i]) \/ IsDigit(upper[i])
                               THEN upper[i] ELSE "_"]
         IN  Trim(normalized, {"_"})

RolloutPrefix == <<"L","U","M","E","N","L","I","N","K","_","R","O","L","L","O","U","T","_","P","E","R","C","E","N","T","A","G","E">>

\* rolloutEnvKeys with the global key tried first
rolloutEnvKeys_globalFirst(configVersion, region) ==
    LET normalizedVersion == normalizeRolloutKey(configVersion)
        normalizedRegion  == normalizeRolloutKey(region)
    IN  <<RolloutPrefix>>
        \o (IF normalizedVersion # << >> /\ normalizedRegion # << >>
            THEN <<RolloutPrefix \o <<"_">> \o normalizedVersion \o <<"_">> \o normalizedRegion>>
            ELSE << >>)
        \o (IF normalizedVersion # << >>
            THEN <<RolloutPrefix \o <<"_">> \o normalizedVersion>> ELSE << >>)
        \o (IF normalizedRegion # << >>
            THEN <<RolloutPrefix \o <<"_">> \o normalizedRegion>> ELSE << >>)

rolloutEnvKeys(configVersion, region) ==
    LET normalizedVersion == normalizeRolloutKey(configVersion)
        normalizedRegion  == normalizeRolloutKey(region)
    IN  (IF normalizedVersion # << >> /\ normalizedRegion # << >>
         THEN <<RolloutPrefix \o <<"_">> \o normalizedVersion \o <<"_">> \o normalizedRegion>>
         ELSE << >>)
        \o (IF normalizedVersion # << >>
            THEN <<RolloutPrefix \o <<"_">> \o normalizedVersion>> ELSE << >>)
        \o (IF normalizedRegion # << >>
            THEN <<RolloutPrefix \o <<"_">> \o normalizedRegion>> ELSE << >>)
        \o <<RolloutPrefix>>

\* os.Getenv: the value of the variable, empty when it is not set
Getenv(environ, key) == IF key \in DOMAIN environ THEN environ[key] ELSE << >>

RECURSIVE digitsValue(_, _)
digitsValue(s, acc) ==
    IF s = << >> THEN acc ELSE digitsValue(Tail(s), acc * 10 + DigitValue(Head(s)))

\* strconv.Atoi on a value of a few digits: an optional sign, then digits only
Atoi(s) ==
    LET signed == s # << >> /\ Head(s) \in {"+", "-"}
        digits == IF signed THEN Tail(s) ELSE s
    IN  IF digits = << >> \/ \E i \in 1..Len(digits) : ~IsDigit(digits[i])
        THEN [err |-> "invalid syntax", value |-> 0]
        ELSE [err |-> "",
              value |-> IF signed /\ Head(s) = "-"
                        THEN 0 - digitsValue(digits, 0)
                        ELSE digitsValue(digits, 0)]

\* the loop of GetRolloutPercentage over the keys
RECURSIVE firstPercentage(_, _)
firstPercentage(environ, keys) ==
    IF keys = << >> THEN 100
    ELSE LET value   == TrimSpace(Getenv(environ, Head(keys)))
             percent == Atoi(value)
         IN  IF value # << >> /\ percent.err = ""
             THEN clampPercentage(percent.value)
             ELSE firstPercentage(environ, Tail(keys))

GetRolloutPercentage(environ, configVersion, region) ==
    [percentage |-> firstPercentage(environ, rolloutEnvKeys(configVersion, region)),
     err |-> ""]

\* ShouldIncludeInRollout with the percentage taken for 100
ShouldIncludeInRollout_percentageIgnored(environ, bits, clientID, configVersion, region) ==
    [include |-> TRUE, err |-> ""]

ShouldIncludeInRollout(environ, bits, clientID, configVersion, region) ==
    LET p == GetRolloutPercentage(environ, configVersion, region) IN
    IF p.err # "" THEN [include |-> FALSE, err |-> p.err]
    ELSE LET hash == hashString(clientID \o configVersion \o region, bits) IN
         [include |-> Rem100(hash) < p.percentage, err |-> ""]


-----------------------------------------------------------------------------
(* hashString applied to strings, on a build of either int size            *)

MaxHashLen == 7   \* longest string drawn from HashAlphabet

HashAlphabet == {"a", "~"}

RECURSIVE StringsUpTo(_)
StringsUpTo(n) ==
    IF n = 0 THEN {<< >>}
    ELSE StringsUpTo(n - 1)
         \cup {Append(str, c) : str \in {x \in StringsUpTo(n - 1) : Len(x) = n - 1},
                                c \in HashAlphabet}

\* the key of TestHashString, the key of TestShouldIncludeInRollout, and
\* four keys whose accumulator ends at the smallest int of a build
HashKeys ==
    { <<"a","b","c">>,
      <<"c","l","i","e","n","t","-","1","1",".","0","u","s","-","e","a","s","t","-","1">>,
      <<"D","A","E","F","I","D","Y">>,
      <<"1","6","C","4","N","A","I">>,
      <<"f","e","y","z","c","n","l","|","c","v","~","w","g">>,
      <<"8","M","<","N",":","K","9","7",";","1","1","L","G">> }

HashInputs == StringsUpTo(MaxHashLen) \cup HashKeys

HashUnchanged ==
    UNCHANGED <<startVars, onceVars, geo, intBits, rolloutEnv, configService,
                directory, attestService, resp, packVars, attestVars>>

InitHash ==
    /\ StartIdle
    /\ configService = BaseService
    /\ directory = BaseDirectory
    /\ attestService = NoAttestationService
    /\ resp = NoResp
    /\ PackIdle
    /\ AttestIdle
    /\ OnceIdle
    /\ GeoIdle
    /\ intBits \in IntSizes
    /\ rolloutEnv = NoRolloutEnv
    /\ rollout = << >>

ApplyHashString ==
    /\ rollout = << >>
    /\ \E str \in HashInputs :
       rollout' = << [op |-> "hashString", s |-> str,
                      hash |-> hashString(str, intBits)] >>
    /\ HashUnchanged

HashReturn ==
    /\ rollout # << >>
    /\ rollout' = << >>
    /\ HashUnchanged

NextHash ==
    \/ ApplyHashString
    \/ HashReturn

SpecHash == InitHash /\ [][NextHash]_vars


\* C22: the value hashString returned in this build is the value it returns
\* for the same string on a build of either int size
C22_HashPlatformIndependent ==
    \A i \in 1..Len(rollout) :
        rollout[i].op = "hashString" =>
            \A bits \in IntSizes : rollout[i].hash = hashString(rollout[i].s, bits)

\* C23: hashString returns a value in 0..99, whatever the accumulator
\* overflowed to
C23_HashInRange ==
    \A i \in 1..Len(rollout) :
        rollout[i].op = "hashString" => rollout[i].hash \in 0..99


-----------------------------------------------------------------------------
(* GetRolloutPercentage and ShouldIncludeInRollout in a process with a     *)
(* given environment                                                        *)

RolloutVersions == { <<"1",".","0">>, << >> }
RolloutRegions  == { <<"u","s","-","e","a","s","t","-","1">>, << >> }
RolloutClients  == { <<"c","l","i","e","n","t","-","1">>, <<"D","A","E","F","I","D","Y">> }

\* the names the variables of the versions and regions above have
KeyVersionRegion == <<"L","U","M","E","N","L","I","N","K","_","R","O","L","L","O","U","T","_","P","E","R","C","E","N","T","A","G","E","_","1","_","0","_","U","S","_","E","A","S","T","_","1">>
KeyVersion       == <<"L","U","M","E","N","L","I","N","K","_","R","O","L","L","O","U","T","_","P","E","R","C","E","N","T","A","G","E","_","1","_","0">>
KeyRegion        == <<"L","U","M","E","N","L","I","N","K","_","R","O","L","L","O","U","T","_","P","E","R","C","E","N","T","A","G","E","_","U","S","_","E","A","S","T","_","1">>
KeyGlobal        == <<"L","U","M","E","N","L","I","N","K","_","R","O","L","L","O","U","T","_","P","E","R","C","E","N","T","A","G","E">>
RolloutKeyNames  == {KeyVersionRegion, KeyVersion, KeyRegion, KeyGlobal}

\* what a variable may hold: nothing, a padded number in range, a negative
\* number, a number above 100, no number
RolloutValues ==
    { << >>, <<" ","4","0"," ">>, <<"-","5">>, <<"1","5","0">>, <<"a","b","c">> }

\* a variable set to the empty string reads like one that is not set
RolloutEnvs == [RolloutKeyNames -> RolloutValues]

RolloutUnchanged ==
    UNCHANGED <<startVars, onceVars, geo, intBits, rolloutEnv, configService,
                directory, attestService, resp, packVars, attestVars>>

InitRollout ==
    /\ StartIdle
    /\ configService = BaseService
    /\ directory = BaseDirectory
    /\ attestService = NoAttestationService
    /\ resp = NoResp
    /\ PackIdle
    /\ AttestIdle
    /\ OnceIdle
    /\ GeoIdle
    /\ intBits \in IntSizes
    /\ rolloutEnv \in RolloutEnvs
    /\ rollout = << >>

RolloutCall(op, clientID, configVersion, region) ==
    IF op = "GetRolloutPercentage"
    THEN LET r == GetRolloutPercentage(rolloutEnv, configVersion, region) IN
         [op |-> op, clientID |-> << >>, configVersion |-> configVersion,
          region |-> region, percentage |-> r.percentage, include |-> FALSE,
          err |-> r.err]
    ELSE LET r == ShouldIncludeInRollout(rolloutEnv, intBits, clientID,
                                         configVersion, region) IN
         [op |-> op, clientID |-> clientID, configVersion |-> configVersion,
          region |-> region, percentage |-> 0, include |-> r.include,
          err |-> r.err]

CallGetRolloutPercentage ==
    /\ rollout = << >>
    /\ \E configVersion \in RolloutVersions, region \in RolloutRegions :
       rollout' = <<RolloutCall("GetRolloutPercentage", << >>, configVersion, region)>>
    /\ RolloutUnchanged

CallShouldIncludeInRollout ==
    /\ rollout = << >>
    /\ \E clientID \in RolloutClients, configVersion \in RolloutVersions,
          region \in RolloutRegions :
       rollout' = <<RolloutCall("ShouldIncludeInRollout", clientID, configVersion, region)>>
    /\ RolloutUnchanged

\* the call just made is made once more with the same arguments
CallAgain ==
    /\ Len(rollout) = 1
    /\ rollout' = Append(rollout, RolloutCall(rollout[1].op, rollout[1].clientID,
                                              rollout[1].configVersion, rollout[1].region))
    /\ RolloutUnchanged

RolloutReturn ==
    /\ rollout # << >>
    /\ rollout' = << >>
    /\ RolloutUnchanged

NextRollout ==
    \/ CallGetRolloutPercentage
    \/ CallShouldIncludeInRollout
    \/ CallAgain
    \/ RolloutReturn

SpecRollout == InitRollout /\ [][NextRollout]_vars


\* the number a variable holds, if it holds one
Configured(key) == 
    /\ TrimSpace(rolloutEnv[key]) # << >>
    /\ Atoi(TrimSpace(rolloutEnv[key])).err = ""

ConfiguredValue(key) == Atoi(TrimSpace(rolloutEnv[key])).value

\* the variables that apply to a version and a region, most specific first
Overrides(configVersion, region) ==
    (IF configVersion # << >> /\ region # << >> THEN <<KeyVersionRegion>> ELSE << >>)
    \o (IF configVersion # << >> THEN <<KeyVersion>> ELSE << >>)
    \o (IF region # << >> THEN <<KeyRegion>> ELSE << >>)
    \o <<KeyGlobal>>

\* the first of them that holds a number, or none (the empty string)
RECURSIVE FirstConfigured(_)
FirstConfigured(keys) ==
    IF keys = << >> THEN << >>
    ELSE IF Configured(Head(keys)) THEN Head(keys)
    ELSE FirstConfigured(Tail(keys))

Supplier(call) == FirstConfigured(Overrides(call.configVersion, call.region))

Limited(v) == IF v < 0 THEN 0 ELSE IF v > 100 THEN 100 ELSE v

PercentageCalls ==
    {i \in 1..Len(rollout) : rollout[i].op = "GetRolloutPercentage"}
InclusionCalls ==
    {i \in 1..Len(rollout) : rollout[i].op = "ShouldIncludeInRollout"}

\* the percentage that applies to a call's version and region
Resolved(call) ==
    IF Supplier(call) = << >> THEN 100 ELSE Limited(ConfiguredValue(Supplier(call)))

C24_OverrideOrder ==
    \A i \in PercentageCalls :
        LET call == rollout[i] IN
        /\ call.err = ""
        /\ call.percentage = Resolved(call)
        /\ Supplier(call) = << >> => call.percentage = 100

\* the version variable supplied the percentage although the region variable
\* and the global one hold other numbers
C24_Witness_VersionBeforeRegion ==
    /\ PercentageCalls # {}
    /\ \E i \in PercentageCalls :
          /\ Supplier(rollout[i]) = KeyVersion
          /\ Configured(KeyRegion) /\ Configured(KeyGlobal)
          /\ ConfiguredValue(KeyRegion) # ConfiguredValue(KeyVersion)
          /\ ConfiguredValue(KeyGlobal) # ConfiguredValue(KeyVersion)
          /\ rollout[i].percentage = 40

\* nothing that applies holds a number and the percentage is 100
C24_Witness_Default ==
    /\ PercentageCalls # {}
    /\ \E i \in PercentageCalls :
          /\ Supplier(rollout[i]) = << >>
          /\ rolloutEnv[KeyGlobal] # << >>

\* C25: the percentage is in 0..100: 0 for a configured value below 0, 100
\* for one above 100, the value itself otherwise, whichever variable held it
C25_PercentageClamped ==
    \A i \in PercentageCalls :
        LET call == rollout[i] IN
        /\ call.percentage \in 0..100
        /\ Supplier(call) # << >> =>
              LET v == ConfiguredValue(Supplier(call)) IN
              /\ v < 0 => call.percentage = 0
              /\ v > 100 => call.percentage = 100
              /\ v \in 0..100 => call.percentage = v

\* the region variable held 150 and the percentage is 100
C25_Witness_RegionAbove ==
    /\ PercentageCalls # {}
    /\ \E i \in PercentageCalls :
          /\ Supplier(rollout[i]) = KeyRegion
          /\ ConfiguredValue(KeyRegion) = 150
          /\ rollout[i].percentage = 100

\* the version+region variable held -5 and the percentage is 0
C25_Witness_SpecificBelow ==
    /\ PercentageCalls # {}
    /\ \E i \in PercentageCalls :
          /\ Supplier(rollout[i]) = KeyVersionRegion
          /\ ConfiguredValue(KeyVersionRegion) = 0 - 5
          /\ rollout[i].percentage = 0

====
